---- MODULE Spec2Model ----
(***************************************************************************)
(* Model of the Hindi consultation pipeline: speaker attribution, filler   *)
(* normalisation, segmentation, symptom / medication / diagnosis / advice  *)
(* extraction, report assembly and the per-connection session handler.     *)
(*                                                                         *)
(* Text is modelled as Python models it: a string is a sequence of Unicode *)
(* code points (naturals), `x in s` is contiguous-subsequence containment, *)
(* len(s) is the number of code points.                                    *)
(***************************************************************************)
EXTENDS Naturals, Sequences, FiniteSets, TLC

\* ---------------------------------------------------------------------------
\* Python str primitives over sequences of code points
\* ---------------------------------------------------------------------------
SetMin(S) == CHOOSE m \in S : \A x \in S : m <= x
SetMax(S) == CHOOSE m \in S : \A x \in S : x <= m

\* str.isspace() per character, for the whitespace this pipeline can see
IsSpace(c) == c \in {9, 10, 11, 12, 13, 32}

\* `sub in t`
Contains(t, sub) ==
    \E i \in 0..(Len(t) - Len(sub)) : SubSeq(t, i + 1, i + Len(sub)) = sub

\* any(x in t for x in xs), xs a sequence of strings
AnyIn(xs, t) == \E k \in 1..Len(xs) : Contains(t, xs[k])

\* all(x in t for x in xs)
AllIn(xs, t) == \A k \in 1..Len(xs) : Contains(t, xs[k])

\* str.strip()
Strip(t) ==
    LET keep == {i \in 1..Len(t) : ~IsSpace(t[i])}
    IN  IF keep = {} THEN <<>> ELSE SubSeq(t, SetMin(keep), SetMax(keep))

\* str.lower(): only ASCII letters have case among the characters modelled
Lower(t) == [i \in 1..Len(t) |-> IF t[i] \in 65..90 THEN t[i] + 32 ELSE t[i]]

\* str.replace(old, ""): non-overlapping occurrences removed, left to right
RECURSIVE Remove(_, _)
Remove(t, old) ==
    IF Len(old) = 0 \/ Len(t) < Len(old) THEN t
    ELSE IF SubSeq(t, 1, Len(old)) = old
         THEN Remove(SubSeq(t, Len(old) + 1, Len(t)), old)
         ELSE <<t[1]>> \o Remove(Tail(t), old)

\* str.split(sep) / re.split("[...]", t) for single-character separators
RECURSIVE SplitOn(_, _)
SplitOn(t, seps) ==
    LET at == {i \in 1..Len(t) : t[i] \in seps}
    IN  IF at = {} THEN <<t>>
        ELSE <<SubSeq(t, 1, SetMin(at) - 1)>>
             \o SplitOn(SubSeq(t, SetMin(at) + 1, Len(t)), seps)

\* sep.join(parts)
RECURSIVE Join(_, _)
Join(sep, parts) ==
    IF Len(parts) = 0 THEN <<>>
    ELSE IF Len(parts) = 1 THEN parts[1]
    ELSE parts[1] \o sep \o Join(sep, Tail(parts))

SP == <<32>>   \* " "
NL == <<10>>   \* "\n"

\* ---------------------------------------------------------------------------
\* Cue tables of speaker_hi.py, diagnosis_from_doctor_hi.py,
\* advice_from_doctor_hi.py and normalize_hi.py
\* ---------------------------------------------------------------------------
DOCTOR_CUES ==
    << <<2350, 2376, 2306, 32, 2310, 2346, 2325, 2368, 32, 2332, 2366, 2306, 2330>>,  \* 'मैं आपकी जांच'
       <<2350, 2376, 2306, 32, 2310, 2346, 2325, 2368, 32, 2332, 2366, 2305, 2330>>,  \* 'मैं आपकी जाँच'
       <<2332, 2366, 2305, 2330, 32, 2325, 2352, 32, 2352, 2361, 2366>>,  \* 'जाँच कर रहा'
       <<2342, 2357, 2366>>,  \* 'दवा'
       <<2354, 2375, 2344, 2368, 32, 2361, 2376>>,  \* 'लेनी है'
       <<2354, 2375, 2306>>,  \* 'लें'
       <<2354, 2367, 2326, 32, 2352, 2361, 2366>>,  \* 'लिख रहा'
       <<2325, 2375, 2360>>,  \* 'केस'
       <<2344, 2367, 2342, 2366, 2344>>,  \* 'निदान'
       <<2337, 2366, 2351, 2327, 2381, 2344, 2379, 2360, 2367, 2360>>,  \* 'डायग्नोसिस'
       <<100, 105, 97, 103, 110, 111, 115, 105, 115>>,  \* 'diagnosis'
       <<2354, 2327, 2340, 2366, 32, 2361, 2376>> >>  \* 'लगता है'

DOCTOR_IMPERATIVES ==
    << <<2326, 2366, 2319, 2306>>,  \* 'खाएं'
       <<2344, 32, 2326, 2366, 2319, 2306>>,  \* 'न खाएं'
       <<2346, 2368, 2319, 2306>>,  \* 'पीएं'
       <<2350, 2340>>,  \* 'मत'
       <<2346, 2352, 2361, 2375, 2332>>,  \* 'परहेज'
       <<2310, 2352, 2366, 2350>>,  \* 'आराम'
       <<2348, 2330, 2375, 2306>>,  \* 'बचें'
       <<2354, 2375, 2340, 2375, 32, 2352, 2361, 2375, 2306>>,  \* 'लेते रहें'
       <<2325, 2350, 32, 2325, 2352, 2375, 2306>>,  \* 'कम करें'
       <<2332, 2381, 2351, 2366, 2342, 2366, 32, 2344>> >>  \* 'ज्यादा न'

PATIENT_CUES ==
    << <<2350, 2369, 2333, 2375>>,  \* 'मुझे'
       <<2350, 2375, 2352, 2375>>,  \* 'मेरे'
       <<2342, 2352, 2381, 2342>>,  \* 'दर्द'
       <<2340, 2325, 2354, 2368, 2347>>,  \* 'तकलीफ'
       <<2361, 2379, 32, 2352, 2361, 2366>>,  \* 'हो रहा'
       <<2361, 2379, 32, 2352, 2361, 2368>>,  \* 'हो रही'
       <<2361, 2376>>,  \* 'है'
       <<2344, 2361, 2368, 2306, 32, 2361, 2376>>,  \* 'नहीं है'
       <<2344, 2361, 2368, 2306, 32, 2361, 2369, 2312>> >>  \* 'नहीं हुई'

DIAGNOSIS_CUES ==
    << <<2344, 2367, 2342, 2366, 2344>>,  \* 'निदान'
       <<2337, 2366, 2351, 2327, 2381, 2344, 2379, 2360, 2367, 2360>>,  \* 'डायग्नोसिस'
       <<100, 105, 97, 103, 110, 111, 115, 105, 115>>,  \* 'diagnosis'
       <<2352, 2379, 2327>>,  \* 'रोग'
       <<2348, 2368, 2350, 2366, 2352, 2368>>,  \* 'बीमारी'
       <<2348, 2367, 2350, 2366, 2352, 2368>>,  \* 'बिमारी'
       <<2360, 2350, 2360, 2381, 2351, 2366>>,  \* 'समस्या'
       <<2311, 2344, 2381, 2347, 2375, 2325, 2381, 2358, 2344>>,  \* 'इन्फेक्शन'
       <<105, 110, 102, 101, 99, 116, 105, 111, 110>> >>  \* 'infection'

DIAGNOSIS_PHRASES ==
    << << <<2325, 2375, 2360>>, <<2361, 2376>> >>,  \* ('केस', 'है')
       << <<2325, 2375, 2360>>, <<2354, 2327>> >>,  \* ('केस', 'लग')
       << <<2310, 2346, 2325, 2379>>, <<2361, 2369, 2310>>, <<2361, 2376>> >>,  \* ('आपको', 'हुआ', 'है')
       << <<2310, 2346, 2325, 2379>>, <<2311, 2344, 2381, 2347, 2375, 2325, 2381, 2358, 2344>>, <<2361, 2376>> >>,  \* ('आपको', 'इन्फेक्शन', 'है')
       << <<2310, 2346, 2325, 2379>>, <<2348, 2368, 2350, 2366, 2352, 2368>>, <<2361, 2376>> >>,  \* ('आपको', 'बीमारी', 'है')
       << <<2310, 2346, 2325, 2379>>, <<2348, 2367, 2350, 2366, 2352, 2368>>, <<2361, 2376>> >>,  \* ('आपको', 'बिमारी', 'है')
       << <<2352, 2379, 2327>>, <<2361, 2376>> >>,  \* ('रोग', 'है')
       << <<2311, 2344, 2381, 2347, 2375, 2325, 2381, 2358, 2344>>, <<2361, 2376>> >>,  \* ('इन्फेक्शन', 'है')
       << <<2361, 2379>>, <<2360, 2325, 2340, 2366>>, <<2361, 2376>> >>,  \* ('हो', 'सकता', 'है')
       << <<2354, 2327, 2340, 2366>>, <<2361, 2376>> >> >>  \* ('लगता', 'है')

ADVICE_CUES ==
    << <<2326, 2366, 2319, 2306>>,  \* 'खाएं'
       <<2344, 32, 2326, 2366, 2319, 2306>>,  \* 'न खाएं'
       <<2346, 2368, 2319, 2306>>,  \* 'पीएं'
       <<2350, 2340>>,  \* 'मत'
       <<2346, 2352, 2361, 2375, 2332>>,  \* 'परहेज'
       <<2310, 2352, 2366, 2350>>,  \* 'आराम'
       <<2348, 2330, 2375, 2306>>,  \* 'बचें'
       <<2354, 2375, 2340, 2375, 32, 2352, 2361, 2375, 2306>>,  \* 'लेते रहें'
       <<2325, 2350, 32, 2325, 2352, 2375, 2306>>,  \* 'कम करें'
       <<2332, 2381, 2351, 2366, 2342, 2366, 32, 2344>>,  \* 'ज्यादा न'
       <<2360, 2369, 2348, 2361>>,  \* 'सुबह'
       <<2358, 2366, 2350>>,  \* 'शाम'
       <<2326, 2366, 2354, 2368, 32, 2346, 2375, 2335>>,  \* 'खाली पेट'
       <<2326, 2366, 2344, 2375, 32, 2325, 2375, 32, 2348, 2366, 2342>> >>  \* 'खाने के बाद'

DROP_LINES ==
    << <<2310, 2357, 2366, 2332, 32, 2310, 32, 2352, 2361, 2368, 32, 2361, 2376>>,  \* 'आवाज आ रही है'
       <<2310, 2357, 2366, 2332, 2364, 32, 2310, 32, 2352, 2361, 2368, 32, 2361, 2376>>,  \* 'आवाज़ आ रही है'
       <<2361, 2375, 2354, 2379>>,  \* 'हेलो'
       <<2361, 2376, 2354, 2379>>,  \* 'हैलो'
       <<104, 101, 108, 108, 111>>,  \* 'hello'
       <<2332, 2368>>,  \* 'जी'
       <<2361, 2366, 2305>>,  \* 'हाँ'
       <<2361, 2366, 2306>>,  \* 'हां'
       <<2336, 2368, 2325, 32, 2361, 2376>>,  \* 'ठीक है'
       <<2360, 2350, 2333, 32, 2327, 2351, 2366>>,  \* 'समझ गया'
       <<2360, 2350, 2333, 32, 2327, 2351, 2368>>,  \* 'समझ गयी'
       <<2346, 2381, 2352, 2379, 2347, 2366, 2311, 2354>>,  \* 'प्रोफाइल'
       <<116, 101, 115, 116>>,  \* 'test'
       <<116, 101, 115, 116, 105, 110, 103>> >>  \* 'testing'

\* ---------------------------------------------------------------------------
\* Lexicon (medical_vocab_hi): static tables, in iteration order
\* ---------------------------------------------------------------------------
SYMPTOMS ==
    << [canonical |-> <<2348, 2369, 2326, 2366, 2352>>,  \* 'बुखार'
        variants |-> << <<2348, 2369, 2326, 2366, 2352>>,  \* 'बुखार'
                        <<2347, 2368, 2357, 2352>> >>],  \* 'फीवर'
       [canonical |-> <<2360, 2367, 2352, 32, 2342, 2352, 2381, 2342>>,  \* 'सिर दर्द'
        variants |-> << <<2360, 2367, 2352, 32, 2342, 2352, 2381, 2342>>,  \* 'सिर दर्द'
                        <<2360, 2367, 2352, 2342, 2352, 2381, 2342>> >>],  \* 'सिरदर्द'
       [canonical |-> <<2325, 2350, 2332, 2379, 2352, 2368>>,  \* 'कमजोरी'
        variants |-> << <<2357, 2368, 2325, 2344, 2375, 2360>>,  \* 'वीकनेस'
                        <<119, 101, 97, 107, 110, 101, 115, 115>> >>] >>  \* 'weakness'

NEGATIONS ==
    << <<2344, 2361, 2368, 2306>>,  \* 'नहीं'
       <<2344, 2361, 2368>> >>  \* 'नही'

LOCATIONS ==
    << [canonical |-> <<2348, 2366, 2312, 2306, 32, 2340, 2352, 2347>>,  \* 'बाईं तरफ'
        variants |-> << <<2348, 2366, 2312, 2306>>,  \* 'बाईं'
                        <<2348, 2366, 2319, 2306>> >>],  \* 'बाएं'
       [canonical |-> <<2342, 2366, 2312, 2306, 32, 2340, 2352, 2347>>,  \* 'दाईं तरफ'
        variants |-> << <<2342, 2366, 2312, 2306>>,  \* 'दाईं'
                        <<2342, 2366, 2319, 2306>> >>] >>  \* 'दाएं'

\* Duration patterns: each is an optional run of digits (\d+) followed by a
\* literal; a pattern with digits |-> TRUE is "\d+ दिन", the other is "परसों".
DURATION_PATTERNS ==
    << [digits |-> TRUE,  lit |-> <<32, 2342, 2367, 2344>>],  \* r"\d+ दिन"
       [digits |-> FALSE, lit |-> <<2346, 2352, 2360, 2379, 2306>>] >>  \* r"परसों"

MEDICATIONS ==
    << [canonical |-> <<2346, 2376, 2352, 2366, 2360, 2367, 2335, 2366, 2350, 2379, 2354>>,  \* 'पैरासिटामोल'
        variants |-> << <<2346, 2376, 2352, 2366, 2360, 2367, 2335, 2366, 2350, 2379, 2354>>,  \* 'पैरासिटामोल'
                        <<2346, 2375, 2352, 2366, 2360, 2367, 2335, 2366, 2350, 2379, 2354>>,  \* 'पेरासिटामोल'
                        <<2337, 2379, 2354, 2379>> >>],  \* 'डोलो'
       [canonical |-> <<2346, 2376, 2344, 45, 2337, 2368>>,  \* 'पैन-डी'
        variants |-> << <<2346, 2376, 2344>> >>] >>  \* 'पैन'

\* Python's None / an optional value: <<>> is None, <<v>> is the value v
None == <<>>
Some(v) == <<v>>

\* ---------------------------------------------------------------------------
\* speaker_hi.py
\* ---------------------------------------------------------------------------
\* detect whose fall-through returns "patient" instead of the last speaker
detect_DefaultPatient(last, text) ==
    LET t == Strip(text)
    IN  IF AnyIn(DOCTOR_CUES, t) THEN [ret |-> "doctor", last |-> "doctor"]
        ELSE IF AnyIn(DOCTOR_IMPERATIVES, t) THEN [ret |-> "doctor", last |-> "doctor"]
        ELSE IF AnyIn(PATIENT_CUES, t) THEN [ret |-> "patient", last |-> "patient"]
        ELSE [ret |-> "patient", last |-> last]

\* detect that tries the patient tier before the two doctor tiers
detect_PatientTierFirst(last, text) ==
    LET t == Strip(text)
    IN  IF AnyIn(PATIENT_CUES, t) THEN [ret |-> "patient", last |-> "patient"]
        ELSE IF AnyIn(DOCTOR_CUES, t) THEN [ret |-> "doctor", last |-> "doctor"]
        ELSE IF AnyIn(DOCTOR_IMPERATIVES, t) THEN [ret |-> "doctor", last |-> "doctor"]
        ELSE [ret |-> last, last |-> last]

\* SpeakerDetector.detect(text) on a detector whose _last_speaker is `last`:
\* ret is the returned label, last the value of _last_speaker afterwards
detect(last, text) ==
    LET t == Strip(text)
    IN  IF AnyIn(DOCTOR_CUES, t) THEN [ret |-> "doctor", last |-> "doctor"]
        ELSE IF AnyIn(DOCTOR_IMPERATIVES, t) THEN [ret |-> "doctor", last |-> "doctor"]
        ELSE IF AnyIn(PATIENT_CUES, t) THEN [ret |-> "patient", last |-> "patient"]
        ELSE [ret |-> last, last |-> last]

\* A detector constructed with last_speaker doctor
InitialSpeaker_Doctor == "doctor"

\* SpeakerDetector.__init__ and SpeakerDetector.reset
InitialSpeaker == "patient"
ResetSpeaker == "patient"

\* ---------------------------------------------------------------------------
\* diagnosis_from_doctor_hi.py
\* ---------------------------------------------------------------------------
contains_diagnosis_signal(text) ==
    \/ AnyIn(DIAGNOSIS_CUES, text)
    \/ \E k \in 1..Len(DIAGNOSIS_PHRASES) : AllIn(DIAGNOSIS_PHRASES[k], text)

\* State of the loop of extract_doctor_diagnosis before the first entry
DiagInit == [buffer |-> <<>>, diagnoses |-> <<>>]

\* DiagStep that keeps the buffer across a non-doctor entry
DiagStep_KeepAcrossPatient(st, entry) ==
    IF entry.speaker # "doctor"
    THEN st
    ELSE LET text == Strip(entry.text)
             buf  == Strip(st.buffer \o SP \o text)
         IN  IF contains_diagnosis_signal(buf)
             THEN [buffer |-> <<>>, diagnoses |-> Append(st.diagnoses, buf)]
             ELSE [buffer |-> buf, diagnoses |-> st.diagnoses]

\* DiagStep that appends the text to the buffer without the separating space
DiagStep_NoSeparator(st, entry) ==
    IF entry.speaker # "doctor"
    THEN [st EXCEPT !.buffer = <<>>]
    ELSE LET text == Strip(entry.text)
             buf  == Strip(st.buffer \o text)
         IN  IF contains_diagnosis_signal(buf)
             THEN [buffer |-> <<>>, diagnoses |-> Append(st.diagnoses, buf)]
             ELSE [buffer |-> buf, diagnoses |-> st.diagnoses]

\* DiagStep that emits the buffer and does not clear it
DiagStep_KeepBufferAfterFlush(st, entry) ==
    IF entry.speaker # "doctor"
    THEN [st EXCEPT !.buffer = <<>>]
    ELSE LET text == Strip(entry.text)
             buf  == Strip(st.buffer \o SP \o text)
         IN  IF contains_diagnosis_signal(buf)
             THEN [buffer |-> buf, diagnoses |-> Append(st.diagnoses, buf)]
             ELSE [buffer |-> buf, diagnoses |-> st.diagnoses]

\* One iteration of the loop of extract_doctor_diagnosis
DiagStep(st, entry) ==
    IF entry.speaker # "doctor"
    THEN [st EXCEPT !.buffer = <<>>]
    ELSE LET text == Strip(entry.text)
             buf  == Strip(st.buffer \o SP \o text)
         IN  IF contains_diagnosis_signal(buf)
             THEN [buffer |-> <<>>, diagnoses |-> Append(st.diagnoses, buf)]
             ELSE [buffer |-> buf, diagnoses |-> st.diagnoses]

RECURSIVE DiagLoop(_, _)
DiagLoop(st, entries) ==
    IF entries = <<>> THEN st
    ELSE DiagLoop(DiagStep(st, Head(entries)), Tail(entries))

extract_doctor_diagnosis(entries) == DiagLoop(DiagInit, entries).diagnoses

\* ---------------------------------------------------------------------------
\* advice_from_doctor_hi.py
\* ---------------------------------------------------------------------------
\* One iteration of the loop that also skips utterances carrying a diagnosis signal
AdviceStep_SkipDiagnosed(advice, entry) ==
    IF entry.speaker # "doctor" THEN advice
    ELSE LET text == Strip(entry.text)
         IN  IF text = <<>> \/ contains_diagnosis_signal(text) THEN advice
             ELSE IF AnyIn(ADVICE_CUES, text) THEN Append(advice, text)
             ELSE advice

\* The cue loop without its break: the text is appended once per matching cue
AdviceStep_OncePerCue(advice, entry) ==
    IF entry.speaker # "doctor" THEN advice
    ELSE LET text == Strip(entry.text)
             hits == {c \in 1..Len(ADVICE_CUES) : Contains(text, ADVICE_CUES[c])}
         IN  IF text = <<>> THEN advice
             ELSE advice \o [i \in 1..Cardinality(hits) |-> text]

\* One iteration of the loop of extract_doctor_advice
AdviceStep(advice, entry) ==
    IF entry.speaker # "doctor" THEN advice
    ELSE LET text == Strip(entry.text)
         IN  IF text = <<>> THEN advice
             ELSE IF AnyIn(ADVICE_CUES, text) THEN Append(advice, text)
             ELSE advice

RECURSIVE AdviceLoop(_, _)
AdviceLoop(advice, entries) ==
    IF entries = <<>> THEN advice
    ELSE AdviceLoop(AdviceStep(advice, Head(entries)), Tail(entries))

extract_doctor_advice(entries) == AdviceLoop(<<>>, entries)

\* ---------------------------------------------------------------------------
\* normalize_hi.py
\* ---------------------------------------------------------------------------
\* remaining = remaining.replace(filler, "") for the fillers from index k on
RECURSIVE RemoveFillers(_, _)
RemoveFillers(remaining, k) ==
    IF k > Len(DROP_LINES) THEN remaining
    ELSE RemoveFillers(Remove(remaining, DROP_LINES[k]), k + 1)

\* The punctuation is_filler_line accepts as what may remain of a line
FillerLeftovers == {<<44>>, <<46>>, <<33>>, <<63>>, <<32>>}  \* "," "." "!" "?" " "

is_filler_line(line) ==
    LET line_stripped == Strip(line)
        remaining_cleaned == Strip(RemoveFillers(line_stripped, 1))
    IN  \/ line_stripped = <<>>
        \/ \E k \in 1..Len(DROP_LINES) :
              \/ line_stripped = DROP_LINES[k]
              \/ Strip(Remove(line_stripped, DROP_LINES[k])) = <<>>
        \/ remaining_cleaned = <<>>
        \/ remaining_cleaned \in FillerLeftovers

\* One iteration of the loop of normalize_hi
NormStep(kept, line) ==
    LET normalized_line == Lower(Strip(line))
    IN  IF normalized_line = <<>> \/ is_filler_line(normalized_line)
        THEN kept ELSE Append(kept, normalized_line)

\* The loop of normalize_hi over the lines
RECURSIVE NormalizeLines(_)
NormalizeLines(lines) ==
    IF lines = <<>> THEN <<>>
    ELSE LET normalized_line == Lower(Strip(Head(lines)))
         IN  (IF normalized_line = <<>> \/ is_filler_line(normalized_line)
              THEN <<>> ELSE <<normalized_line>>)
             \o NormalizeLines(Tail(lines))

normalize_hi(text) == Join(NL, NormalizeLines(SplitOn(text, {10})))

\* ---------------------------------------------------------------------------
\* segment_hi.py
\* ---------------------------------------------------------------------------
RECURSIVE StripNonEmpty(_)
StripNonEmpty(parts) ==
    IF parts = <<>> THEN <<>>
    ELSE (IF Strip(Head(parts)) = <<>> THEN <<>> ELSE <<Strip(Head(parts))>>)
         \o StripNonEmpty(Tail(parts))

segment_hi(text) == StripNonEmpty(SplitOn(text, {44, 10}))

\* ---------------------------------------------------------------------------
\* extract_hi.py
\* ---------------------------------------------------------------------------
\* The positions at which sub occurs in t
Occurrences(t, sub) ==
    {i \in 1..Len(t) : i + Len(sub) - 1 <= Len(t) /\ SubSeq(t, i, i + Len(sub) - 1) = sub}

\* A negation marker lies within the 15 characters right before or right after
\* an occurrence of one of the variants
NegationNear(sentence, symptom_variants) ==
    \E v \in 1..Len(symptom_variants), n \in 1..Len(NEGATIONS) :
        \E i \in Occurrences(sentence, symptom_variants[v]),
           j \in Occurrences(sentence, NEGATIONS[n]) :
            LET vend == i + Len(symptom_variants[v]) - 1
                nend == j + Len(NEGATIONS[n]) - 1
            IN  \/ j + 15 >= i /\ nend < i
                \/ j > vend /\ nend <= vend + 15

\* has_negation that looks for the marker only in a window around the variant
has_negation_Window15(sentence, symptom_variants) == NegationNear(sentence, symptom_variants)

has_negation(sentence, symptom_variants) ==
    LET has_negation_word == AnyIn(NEGATIONS, sentence)
        has_symptom == AnyIn(symptom_variants, sentence)
    IN  has_negation_word /\ has_symptom

\* \d of the re module
IsDigit(c) == c \in 48..57 \/ c \in 2406..2415

\* The ends of the matches of pattern p that start at position i of s
MatchEnds(p, s, i) ==
    IF p.digits
    THEN {j + Len(p.lit) : j \in
            {j \in i..Len(s) : /\ \A k \in i..j : IsDigit(s[k])
                               /\ j + Len(p.lit) <= Len(s)
                               /\ SubSeq(s, j + 1, j + Len(p.lit)) = p.lit}}
    ELSE IF i + Len(p.lit) - 1 <= Len(s) /\ SubSeq(s, i, i + Len(p.lit) - 1) = p.lit
         THEN {i + Len(p.lit) - 1} ELSE {}

\* pattern.search(s): None, or Some(match.group(0)) of the leftmost match
PatternSearch(p, s) ==
    LET starts == {i \in 1..Len(s) : MatchEnds(p, s, i) # {}}
    IN  IF starts = {} THEN None
        ELSE LET i == SetMin(starts)
             IN  Some(SubSeq(s, i, SetMax(MatchEnds(p, s, i))))

\* The duration loop without its break: the match of the last pattern that matches
RECURSIVE FirstDuration_LastPattern(_, _)
FirstDuration_LastPattern(sentence, k) ==
    IF k > Len(DURATION_PATTERNS) THEN None
    ELSE IF FirstDuration_LastPattern(sentence, k + 1) # None
         THEN FirstDuration_LastPattern(sentence, k + 1)
         ELSE PatternSearch(DURATION_PATTERNS[k], sentence)

\* The duration loop: the match of the first pattern that matches, if any
RECURSIVE FirstDuration(_, _)
FirstDuration(sentence, k) ==
    IF k > Len(DURATION_PATTERNS) THEN None
    ELSE IF PatternSearch(DURATION_PATTERNS[k], sentence) # None
         THEN PatternSearch(DURATION_PATTERNS[k], sentence)
         ELSE FirstDuration(sentence, k + 1)

\* The location loop that leaves a location the entry already has
RECURSIVE WithLocations_KeepFirst(_, _, _)
WithLocations_KeepFirst(symptom_entry, sentence, k) ==
    IF k > Len(LOCATIONS) THEN symptom_entry
    ELSE WithLocations_KeepFirst(
            IF AnyIn(LOCATIONS[k].variants, sentence) /\ "location" \notin DOMAIN symptom_entry
            THEN ("location" :> LOCATIONS[k].canonical) @@ symptom_entry
            ELSE symptom_entry,
            sentence, k + 1)

\* The location loop: every matching location overwrites the entry's location
RECURSIVE WithLocations(_, _, _)
WithLocations(symptom_entry, sentence, k) ==
    IF k > Len(LOCATIONS) THEN symptom_entry
    ELSE WithLocations(
            IF AnyIn(LOCATIONS[k].variants, sentence)
            THEN ("location" :> LOCATIONS[k].canonical) @@ symptom_entry
            ELSE symptom_entry,
            sentence, k + 1)

\* WithDuration that leaves a duration the entry already has
WithDuration_KeepFirst(symptom_entry, sentence) ==
    IF FirstDuration(sentence, 1) = None \/ "duration" \in DOMAIN symptom_entry
    THEN symptom_entry
    ELSE ("duration" :> FirstDuration(sentence, 1)[1]) @@ symptom_entry

WithDuration(symptom_entry, sentence) ==
    IF FirstDuration(sentence, 1) = None THEN symptom_entry
    ELSE ("duration" :> FirstDuration(sentence, 1)[1]) @@ symptom_entry

\* found_positive is an insertion-ordered dict: a sequence of entries, one per name
PositiveIndex(found_positive, canonical) ==
    {i \in 1..Len(found_positive) : found_positive[i].name = canonical}

PositiveNames(found_positive) ==
    {found_positive[i].name : i \in 1..Len(found_positive)}

\* found_positive.get(canonical, {"name": canonical})
GetEntry(found_positive, canonical) ==
    IF PositiveIndex(found_positive, canonical) = {}
    THEN [name |-> canonical]
    ELSE found_positive[SetMin(PositiveIndex(found_positive, canonical))]

\* found_positive[canonical] = symptom_entry
PutEntry(found_positive, canonical, symptom_entry) ==
    IF PositiveIndex(found_positive, canonical) = {}
    THEN Append(found_positive, symptom_entry)
    ELSE [found_positive EXCEPT
            ![SetMin(PositiveIndex(found_positive, canonical))] = symptom_entry]

\* State of extract_symptoms before the first sentence
SymInit == [found_positive |-> <<>>, found_negative |-> {}]

\* The body of the inner loop of extract_symptoms for one lexicon entry
SymOne(st, sentence, sym) ==
    LET symptom_mentioned ==
            AnyIn(sym.variants, sentence) \/ Contains(sentence, sym.canonical)
    IN  IF ~symptom_mentioned THEN st
        ELSE IF has_negation(sentence, sym.variants)
        THEN [st EXCEPT !.found_negative = @ \cup {sym.canonical}]
        ELSE [st EXCEPT !.found_positive =
                PutEntry(@, sym.canonical,
                    WithDuration(
                        WithLocations(GetEntry(@, sym.canonical), sentence, 1),
                        sentence))]

\* The inner loop of extract_symptoms: every lexicon entry from index k on
RECURSIVE SymInner(_, _, _)
SymInner(st, sentence, k) ==
    IF k > Len(SYMPTOMS) THEN st
    ELSE SymInner(SymOne(st, sentence, SYMPTOMS[k]), sentence, k + 1)

\* One iteration of the outer loop of extract_symptoms
SymStep(st, sentence) == SymInner(st, sentence, 1)

RECURSIVE SymLoop(_, _)
SymLoop(st, sentences) ==
    IF sentences = <<>> THEN st
    ELSE SymLoop(SymStep(st, Head(sentences)), Tail(sentences))

\* FinalNegatives without the filter against found_positive
FinalNegatives_Unfiltered(st) == st.found_negative

\* The negatives kept at the end of extract_symptoms (a Python set: no order)
FinalNegatives(st) ==
    {symptom \in st.found_negative : symptom \notin PositiveNames(st.found_positive)}

\* Every list that iterating a Python set can produce
ListsOf(S) ==
    {l \in [1..Cardinality(S) -> S] : \A i, j \in 1..Cardinality(S) : l[i] = l[j] => i = j}

\* What extract_symptoms can return: the order of negatives is the iteration
\* order of a set, which the language leaves open
SymResults(st) ==
    {[symptoms |-> st.found_positive, negatives |-> n] : n \in ListsOf(FinalNegatives(st))}

extract_symptoms(sentences) == SymResults(SymLoop(SymInit, sentences))

\* The medication loop that emits a canonical name once per occurrence of a variant
RECURSIVE MedLoop_PerOccurrence(_, _)
MedLoop_PerOccurrence(text, k) ==
    IF k > Len(MEDICATIONS) THEN <<>>
    ELSE LET hits == {<<v, i>> \in (1..Len(MEDICATIONS[k].variants)) \X (1..Len(text)) :
                         i \in Occurrences(text, MEDICATIONS[k].variants[v])}
         IN  [n \in 1..Cardinality(hits) |-> MEDICATIONS[k].canonical]
             \o MedLoop_PerOccurrence(text, k + 1)

RECURSIVE MedLoop(_, _)
MedLoop(text, k) ==
    IF k > Len(MEDICATIONS) THEN <<>>
    ELSE (IF AnyIn(MEDICATIONS[k].variants, text)
          THEN <<MEDICATIONS[k].canonical>> ELSE <<>>)
         \o MedLoop(text, k + 1)

extract_medications(text) == MedLoop(text, 1)

\* ---------------------------------------------------------------------------
\* build_report_hi.py
\* ---------------------------------------------------------------------------
\* build_json_hi whose chief complaint defaults to "" in place of None
build_json_hi_BlankComplaint(transcript, speaker, extra_text_for_meds) ==
    LET normalized_text == normalize_hi(transcript)
        sentences == segment_hi(normalized_text)
        medication_search_text ==
            IF extra_text_for_meds # <<>> THEN extra_text_for_meds ELSE normalized_text
        medications == extract_medications(medication_search_text)
    IN  {[speaker |-> speaker,
          chief_complaint |->
              IF r.symptoms # <<>> THEN Some(r.symptoms[1].name) ELSE Some(<<>>),
          symptoms |-> r.symptoms,
          negatives |-> r.negatives,
          medications |-> medications] : r \in extract_symptoms(sentences)}

\* build_json_hi whose chief complaint is the last symptom record's name
build_json_hi_LastComplaint(transcript, speaker, extra_text_for_meds) ==
    LET normalized_text == normalize_hi(transcript)
        sentences == segment_hi(normalized_text)
        medication_search_text ==
            IF extra_text_for_meds # <<>> THEN extra_text_for_meds ELSE normalized_text
        medications == extract_medications(medication_search_text)
    IN  {[speaker |-> speaker,
          chief_complaint |->
              IF r.symptoms # <<>> THEN Some(r.symptoms[Len(r.symptoms)].name) ELSE None,
          symptoms |-> r.symptoms,
          negatives |-> r.negatives,
          medications |-> medications] : r \in extract_symptoms(sentences)}

\* What build_json_hi can return (one record per order of the negatives)
build_json_hi(transcript, speaker, extra_text_for_meds) ==
    LET normalized_text == normalize_hi(transcript)
        sentences == segment_hi(normalized_text)
        medication_search_text ==
            IF extra_text_for_meds # <<>> THEN extra_text_for_meds ELSE normalized_text
        medications == extract_medications(medication_search_text)
    IN  {[speaker |-> speaker,
          chief_complaint |->
              IF r.symptoms # <<>> THEN Some(r.symptoms[1].name) ELSE None,
          symptoms |-> r.symptoms,
          negatives |-> r.negatives,
          medications |-> medications] : r \in extract_symptoms(sentences)}

\* ---------------------------------------------------------------------------
\* main.py: report assembly
\* ---------------------------------------------------------------------------
\* [entry["text"] for entry in transcript if entry["speaker"] == speaker]
RECURSIVE extract_speaker_lines(_, _)
extract_speaker_lines(transcript, speaker) ==
    IF transcript = <<>> THEN <<>>
    ELSE (IF Head(transcript).speaker = speaker THEN <<Head(transcript).text>> ELSE <<>>)
         \o extract_speaker_lines(Tail(transcript), speaker)

\* all_lines taken from the doctor's entries only
AllLines_DoctorOnly(transcript) == extract_speaker_lines(transcript, "doctor")

AllLines(transcript) == [i \in 1..Len(transcript) |-> transcript[i].text]

\* list(dict.fromkeys(xs)): the first occurrence of every element, in order
RECURSIVE DedupFrom(_, _)
DedupFrom(xs, i) ==
    IF i > Len(xs) THEN <<>>
    ELSE (IF \E j \in 1..(i - 1) : xs[j] = xs[i] THEN <<>> ELSE <<xs[i]>>)
         \o DedupFrom(xs, i + 1)

\* A deduplication that keeps the last occurrence of every element
Dedup_KeepLast(xs) ==
    LET kept == {i \in 1..Len(xs) : \A j \in (i + 1)..Len(xs) : xs[j] # xs[i]}
        nth[n \in 0..Len(xs)] ==
            IF n = 0 THEN 0 ELSE SetMin({i \in kept : i > nth[n - 1]})
    IN  [n \in 1..Cardinality(kept) |-> xs[nth[n]]]

Dedup(xs) == DedupFrom(xs, 1)

\* build_structured_data whose diagnosis list is stored under the key "diagnoses"
build_structured_data_DiagnosesKey(full_transcript) ==
    LET combined_patient == Join(NL, extract_speaker_lines(full_transcript, "patient"))
        combined_all == Join(NL, AllLines(full_transcript))
        diagnoses == extract_doctor_diagnosis(full_transcript)
        advice == extract_doctor_advice(full_transcript)
    IN  {("advice" :> Dedup(advice)) @@ ("diagnoses" :> Dedup(diagnoses)) @@ structured :
            structured \in build_json_hi(combined_patient, "patient", combined_all)}

\* What build_structured_data can return for a session's transcript: the dict of
\* build_json_hi with the keys "diagnosis" and "advice" set
build_structured_data(full_transcript) ==
    LET combined_patient == Join(NL, extract_speaker_lines(full_transcript, "patient"))
        combined_all == Join(NL, AllLines(full_transcript))
        diagnoses == extract_doctor_diagnosis(full_transcript)
        advice == extract_doctor_advice(full_transcript)
    IN  {("advice" :> Dedup(advice)) @@ ("diagnosis" :> Dedup(diagnoses)) @@ structured :
            structured \in build_json_hi(combined_patient, "patient", combined_all)}

\* ---------------------------------------------------------------------------
\* ollama_formatter.py
\* ---------------------------------------------------------------------------
MAX_JSON_SIZE_BYTES == 50000

\* validate_input: the exception it raises, or None when it returns.
\* structured_json is described by whether it is a dict, by the kind of value
\* under each of its keys, and by the size in bytes of its JSON serialisation
validate_input(structured_json) ==
    IF ~structured_json.is_dict THEN Some("ValueError")
    ELSE IF structured_json.json_size > MAX_JSON_SIZE_BYTES THEN Some("ValueError")
    ELSE None

\* What call_ollama followed by validate_output makes of the service's behaviour:
\* a failed run (exit code, timeout, CLI not found), an empty output and an
\* output flagged as a violation all end in RuntimeError; otherwise the note is
\* returned, with a warning appended when hallucinations are suspected
NoteOutcome(service) ==
    IF service \in {"failed", "empty", "flagged"} THEN "RuntimeError"
    ELSE IF service = "suspect" THEN "note_with_warning"
    ELSE "note"

\* ---------------------------------------------------------------------------
\* Bounds and input sets
\* ---------------------------------------------------------------------------
\* Connections whose handlers can run at the same time
NumConns == 2
\* Finalized non-empty utterances the recognizer delivers in one run
MaxUtterances == 3
\* Length of the fragment list given to extract_symptoms
MaxSentences == 3
\* Length of the entry list given to extract_doctor_diagnosis
MaxEntries == 3

ConnIds == 1..NumConns

\* Finalized recognizer texts
U_ji == <<2332, 2368>>  \* 'जी'
U_dava == <<2342, 2357, 2366>>  \* 'दवा'
U_hai == <<2361, 2376>>  \* 'है'
U_mujhe_bukhar_hai == <<2350, 2369, 2333, 2375, 32, 2348, 2369, 2326, 2366, 2352, 32, 2361, 2376>>  \* 'मुझे बुखार है'
U_dava_leni_hai == <<2342, 2357, 2366, 32, 2354, 2375, 2344, 2368, 32, 2361, 2376>>  \* 'दवा लेनी है'
U_aaram_zaroori_hai == <<2310, 2352, 2366, 2350, 32, 2332, 2352, 2370, 2352, 2368, 32, 2361, 2376>>  \* 'आराम जरूरी है'
U_yah_bukhar_ka == <<2351, 2361, 32, 2348, 2369, 2326, 2366, 2352, 32, 2325, 2366>>  \* 'यह बुखार का'
U_case_lag_raha_hai == <<2325, 2375, 2360, 32, 2354, 2327, 32, 2352, 2361, 2366, 32, 2361, 2376>>  \* 'केस लग रहा है'
U_yah_case == <<2351, 2361, 32, 2325, 2375, 2360>>  \* 'यह केस'
U_lag_raha == <<2354, 2327, 32, 2352, 2361, 2366>>  \* 'लग रहा'
U_aaram_karen == <<2310, 2352, 2366, 2350, 32, 2325, 2352, 2375, 2306>>  \* 'आराम करें'
U_sun_raha == <<2360, 2369, 2344, 32, 2352, 2361, 2366>>  \* 'सुन रहा'

Utterances ==
    {U_ji, U_dava, U_hai, U_mujhe_bukhar_hai, U_dava_leni_hai,
     U_aaram_zaroori_hai, U_yah_bukhar_ka, U_case_lag_raha_hai}

\* What recognizer.Result() can hold under "text": an utterance, or nothing
RecognizerResults == Utterances \cup {<<>>}

\* What recognizer.PartialResult() holds under "partial" while speech goes on
PartialTexts == {U_sun_raha}

\* Sentence fragments, as segment_hi(normalize_hi(...)) delivers them
F_3_din_se == <<51, 32, 2342, 2367, 2344, 32, 2360, 2375>>  \* '3 दिन से'
F_parson_se == <<2346, 2352, 2360, 2379, 2306, 32, 2360, 2375>>  \* 'परसों से'
F_bukhar_hai == <<2348, 2369, 2326, 2366, 2352, 32, 2361, 2376>>  \* 'बुखार है'
F_sir_dard_hai == <<2360, 2367, 2352, 32, 2342, 2352, 2381, 2342, 32, 2361, 2376>>  \* 'सिर दर्द है'
F_bukhar_nahin_hai == <<2348, 2369, 2326, 2366, 2352, 32, 2344, 2361, 2368, 2306, 32, 2361, 2376>>  \* 'बुखार नहीं है'
F_parson_se_bukhar_hai == <<2346, 2352, 2360, 2379, 2306, 32, 2360, 2375, 32, 2348, 2369, 2326, 2366, 2352, 32, 2361, 2376>>  \* 'परसों से बुखार है'
F_baain_taraf_sir_dard_hai == <<2348, 2366, 2312, 2306, 32, 2340, 2352, 2347, 32, 2360, 2367, 2352, 32, 2342, 2352, 2381, 2342, 32, 2361, 2376>>  \* 'बाईं तरफ सिर दर्द है'
F_kamzori_nahin_hai == <<2325, 2350, 2332, 2379, 2352, 2368, 32, 2344, 2361, 2368, 2306, 32, 2361, 2376>>  \* 'कमजोरी नहीं है'
F_bukhar_hai_lekin == <<2348, 2369, 2326, 2366, 2352, 32, 2361, 2376, 32, 2354, 2375, 2325, 2367, 2344, 32, 2326, 2366, 2306, 2360, 2368, 32, 2348, 2367, 2354, 2381, 2325, 2369, 2354, 32, 2344, 2361, 2368, 2306, 32, 2361, 2376>>  \* 'बुखार है लेकिन खांसी बिल्कुल नहीं है'
F_3_din_se_bukhar_hai == <<51, 32, 2342, 2367, 2344, 32, 2360, 2375, 32, 2348, 2369, 2326, 2366, 2352, 32, 2361, 2376>>  \* '3 दिन से बुखार है'
F_parson_se_bukhar_hai_2_din == <<2346, 2352, 2360, 2379, 2306, 32, 2360, 2375, 32, 2348, 2369, 2326, 2366, 2352, 32, 2361, 2376, 32, 50, 32, 2342, 2367, 2344, 32, 2361, 2379, 32, 2327, 2319>>  \* 'परसों से बुखार है 2 दिन हो गए'
F_daain_taraf_sir_dard_hai == <<2342, 2366, 2312, 2306, 32, 2340, 2352, 2347, 32, 2360, 2367, 2352, 32, 2342, 2352, 2381, 2342, 32, 2361, 2376>>  \* 'दाईं तरफ सिर दर्द है'

Fragments ==
    {F_3_din_se, F_parson_se, F_bukhar_hai, F_sir_dard_hai, F_bukhar_nahin_hai,
     F_parson_se_bukhar_hai, F_baain_taraf_sir_dard_hai, F_kamzori_nahin_hai,
     F_bukhar_hai_lekin, F_3_din_se_bukhar_hai,
     F_parson_se_bukhar_hai_2_din, F_daain_taraf_sir_dard_hai}

\* Transcript entries given to extract_doctor_diagnosis
DiagEntries ==
    [speaker : {"doctor"},
     text : {U_yah_bukhar_ka, U_case_lag_raha_hai, U_yah_case, U_lag_raha, U_aaram_karen}]
    \cup [speaker : {"patient"}, text : {U_ji, U_yah_case}]

\* Transcript entries given to extract_doctor_advice: a text with three cues and
\* surrounding blanks, one with one cue, a cue-free one and a blank one
A_subah_sham_aaram_karen == <<32, 2360, 2369, 2348, 2361, 32, 2358, 2366, 2350, 32, 2310, 2352, 2366, 2350, 32, 2325, 2352, 2375, 2306, 32>>  \* ' सुबह शाम आराम करें '

AdviceEntries ==
    [speaker : {"doctor"},
     text : {A_subah_sham_aaram_karen, U_aaram_karen, U_yah_bukhar_ka, SP}]
    \cup [speaker : {"patient"}, text : {U_aaram_karen}]

\* Utterances of the transcript given to build_structured_data
MaxReportLines == 3

R_dolo_li_hai == <<2337, 2379, 2354, 2379, 32, 2354, 2368, 32, 2361, 2376>>  \* 'डोलो ली है'
R_infection_hai_aaram_karen == <<2311, 2344, 2381, 2347, 2375, 2325, 2381, 2358, 2344, 32, 2361, 2376, 32, 2310, 2352, 2366, 2350, 32, 2325, 2352, 2375, 2306>>  \* 'इन्फेक्शन है आराम करें'
R_pain_subah_len == <<2346, 2376, 2344, 32, 2360, 2369, 2348, 2361, 32, 2354, 2375, 2306>>  \* 'पैन सुबह लें'
R_sir_dard_hai_bukhar_nahin_hai == <<2360, 2367, 2352, 32, 2342, 2352, 2381, 2342, 32, 2361, 2376, 44, 32, 2348, 2369, 2326, 2366, 2352, 32, 2344, 2361, 2368, 2306, 32, 2361, 2376>>  \* 'सिर दर्द है, बुखार नहीं है'

\* Recognized texts of a consultation: the patient denies and reports symptoms
\* and names a medicine, the doctor states diagnoses and gives advice
ReportTexts ==
    {F_bukhar_nahin_hai, F_sir_dard_hai, U_mujhe_bukhar_hai, R_dolo_li_hai,
     R_infection_hai_aaram_karen, U_case_lag_raha_hai, R_pain_subah_len,
     R_sir_dard_hai_bukhar_nahin_hai}

\* Lines of the text given to normalize_hi
MaxLines == 3

L_helo == <<2361, 2375, 2354, 2379>>  \* 'हेलो'
L_awaz == <<2310, 2357, 2366, 2332, 32, 2310, 32, 2352, 2361, 2368, 32, 2361, 2376>>  \* 'आवाज आ रही है'
L_haan_mujhe_bukhar_hai == <<2361, 2366, 2305, 32, 2350, 2369, 2333, 2375, 32, 2348, 2369, 2326, 2366, 2352, 32, 2361, 2376>>  \* 'हाँ मुझे बुखार है'
L_jiji == <<2332, 2368, 2332, 2368>>  \* 'जीजी'
L_hello_testing == <<104, 101, 108, 108, 111, 32, 116, 101, 115, 116, 105, 110, 103>>  \* 'hello testing'
L_Test == <<32, 84, 101, 115, 116, 32>>  \* ' Test '
L_helo_helo_awaz == <<2361, 2375, 2354, 2379, 32, 2361, 2375, 2354, 2379, 32, 2310, 2357, 2366, 2332, 32, 2310, 32, 2352, 2361, 2368, 32, 2361, 2376>>  \* 'हेलो हेलो आवाज आ रही है'

L_helo_ji_punct == <<2361, 2375, 2354, 2379, 44, 32, 2332, 2368, 46>>  \* 'हेलो, जी.'

NormLines ==
    {L_helo, U_mujhe_bukhar_hai, L_awaz, L_haan_mujhe_bukhar_hai, L_jiji,
     L_hello_testing, L_Test, L_helo_helo_awaz, L_helo_ji_punct}

\* Payloads given to generate_opd_note: something that is not a dict, or a dict
\* in which each list field of the report is absent, a list or a string, with a
\* serialisation below, at or above the size limit
ListFields == {"symptoms", "negatives", "medications", "diagnosis", "advice"}

PayloadSizes == {MAX_JSON_SIZE_BYTES - 1, MAX_JSON_SIZE_BYTES, MAX_JSON_SIZE_BYTES + 1}

Payloads ==
    {[is_dict |-> FALSE, fields |-> <<>>, json_size |-> MAX_JSON_SIZE_BYTES - 1]}
    \cup {[is_dict |-> TRUE, fields |-> f, json_size |-> s] :
            f \in UNION {[keys -> {"list", "str"}] : keys \in SUBSET ListFields},
            s \in PayloadSizes}

\* How the text-generation service behaves when it is called
ServiceBehaviours == {"failed", "empty", "flagged", "suspect", "clean"}

\* All sequences over S of length 0..n
SeqsUpTo(S, n) == UNION {[1..k -> S] : k \in 0..n}

\* ---------------------------------------------------------------------------
\* State
\* ---------------------------------------------------------------------------
VARIABLES
    sessions,    \* main.sessions: session id -> [transcript, last_speaker]
    conn,        \* per connection: "idle" (no handler) or "open" (handler in its loop)
    outbox,      \* per connection: the last message sent on it while it is open
    heard,       \* per connection: the non-empty texts recognized since the
                 \* connection's last stop signal (history, not program state)
    received,    \* non-empty utterances recognized so far (bounded by MaxUtterances)
    sentences,   \* extract_symptoms: its argument
    si,          \* extract_symptoms: index of the next sentence of the outer loop
    sym_st,      \* extract_symptoms: found_positive and found_negative
    sym_out,     \* extract_symptoms: None until it returns, then Some(result)
    entries,     \* extract_doctor_diagnosis: its argument
    ei,          \* extract_doctor_diagnosis: index of the next entry of the loop
    diag_st,     \* extract_doctor_diagnosis: buffer and diagnoses
    emitted_at,  \* per emitted diagnosis, the index of the entry at which it was
                 \* appended (history, not program state)
    rep_transcript, \* build_structured_data: the session's transcript
    rep_out,     \* build_structured_data: None until it returns, then Some(report)
    norm_text,   \* normalize_hi: its argument
    ni,          \* normalize_hi: index of the next line of the loop
    cleaned,     \* normalize_hi: the lines kept so far
    norm_out,    \* normalize_hi: None until it returns, then Some(result)
    payload,     \* generate_opd_note: its argument
    note_pc,     \* generate_opd_note: "start", "validated" or "done"
    note_called, \* generate_opd_note: whether call_ollama has been entered
    note_result, \* generate_opd_note: None, or Some(outcome) once it is done
    adv_entries, \* extract_doctor_advice: its argument
    adi,         \* extract_doctor_advice: index of the next entry of the loop
    advice_st    \* extract_doctor_advice: the advice list so far

session_vars == <<sessions, conn, outbox, heard, received>>
sym_vars == <<sentences, si, sym_st, sym_out>>
diag_vars == <<entries, ei, diag_st, emitted_at>>
rep_vars == <<rep_transcript, rep_out>>
norm_vars == <<norm_text, ni, cleaned, norm_out>>
note_vars == <<payload, note_pc, note_called, note_result>>
adv_vars == <<adv_entries, adi, advice_st>>
vars == <<sessions, conn, outbox, heard, received,
          sentences, si, sym_st, sym_out, entries, ei, diag_st, emitted_at,
          rep_transcript, rep_out, norm_text, ni, cleaned, norm_out,
          payload, note_pc, note_called, note_result,
          adv_entries, adi, advice_st>>

NoMessage == [type |-> "none"]

SessionInit ==
    /\ sessions = <<>>
    /\ conn = [c \in ConnIds |-> "idle"]
    /\ outbox = [c \in ConnIds |-> NoMessage]
    /\ heard = [c \in ConnIds |-> <<>>]
    /\ received = 0

SymIdle ==
    /\ sentences = <<>>
    /\ si = 1
    /\ sym_st = SymInit
    /\ sym_out = None

DiagIdle ==
    /\ entries = <<>>
    /\ ei = 1
    /\ diag_st = DiagInit
    /\ emitted_at = <<>>

RepIdle ==
    /\ rep_transcript = <<>>
    /\ rep_out = None

NormIdle ==
    /\ norm_text = <<>>
    /\ ni = 1
    /\ cleaned = <<>>
    /\ norm_out = None

NoteIdle ==
    /\ payload = None
    /\ note_pc = "start"
    /\ note_called = FALSE
    /\ note_result = None

AdviceIdle ==
    /\ adv_entries = <<>>
    /\ adi = 1
    /\ advice_st = <<>>

\* ---------------------------------------------------------------------------
\* main.py: sessions and the websocket handler
\* ---------------------------------------------------------------------------
\* sessions[session_id] = {"transcript": [], "speaker_detector": SpeakerDetector()}
create_session(map, session_id) ==
    (session_id :> [transcript |-> <<>>, last_speaker |-> InitialSpeaker]) @@ map

\* if session_id in sessions: del sessions[session_id]
cleanup_session(map, session_id) ==
    [k \in (DOMAIN map) \ {session_id} |-> map[k]]

\* reset_session that clears the transcript and leaves the detector as it is
reset_session_KeepDetector(map, session_id) ==
    [map EXCEPT ![session_id] = [transcript |-> <<>>, last_speaker |-> @.last_speaker]]

\* transcript.clear(); speaker_detector.reset()
reset_session(map, session_id) ==
    [map EXCEPT ![session_id] = [transcript |-> <<>>, last_speaker |-> ResetSpeaker]]

\* AppendUtterance with one detector shared by all sessions: the call also moves
\* the last_speaker of every other session
AppendUtterance_SharedDetector(map, session_id, text) ==
    LET d == detect(map[session_id].last_speaker, text)
    IN  [k \in DOMAIN map |->
            IF k = session_id
            THEN [transcript |-> Append(map[k].transcript, [speaker |-> d.ret, text |-> text]),
                  last_speaker |-> d.last]
            ELSE [map[k] EXCEPT !.last_speaker = d.last]]

\* AppendUtterance that drops an utterance repeating the text of the last entry
AppendUtterance_SkipRepeat(map, session_id, text) ==
    LET d == detect(map[session_id].last_speaker, text)
        tr == map[session_id].transcript
    IN  [map EXCEPT ![session_id] =
            [transcript |-> IF tr # <<>> /\ tr[Len(tr)].text = text
                            THEN tr
                            ELSE Append(tr, [speaker |-> d.ret, text |-> text]),
             last_speaker |-> d.last]]

\* speaker = detector.detect(text); transcript.append({speaker, text})
AppendUtterance(map, session_id, text) ==
    LET d == detect(map[session_id].last_speaker, text)
    IN  [map EXCEPT ![session_id] =
            [transcript |-> Append(@.transcript, [speaker |-> d.ret, text |-> text]),
             last_speaker |-> d.last]]

\* The transcript the handler builds of the texts, utterance by utterance, with a
\* detector whose state is last
RECURSIVE LabelFrom(_, _)
LabelFrom(last, texts) ==
    IF texts = <<>> THEN <<>>
    ELSE <<[speaker |-> detect(last, Head(texts)).ret, text |-> Head(texts)]>>
         \o LabelFrom(detect(last, Head(texts)).last, Tail(texts))

\* ws.accept(); create_session(session_id)
Connect(c) ==
    /\ conn[c] = "idle"
    /\ conn' = [conn EXCEPT ![c] = "open"]
    /\ sessions' = create_session(sessions, c)
    /\ outbox' = [outbox EXCEPT ![c] = NoMessage]
    /\ heard' = [heard EXCEPT ![c] = <<>>]
    /\ UNCHANGED <<received, sym_vars, diag_vars, rep_vars, norm_vars, note_vars, adv_vars>>

\* ws.accept(); create_session(session_id); create_recognizer() raises. The two
\* calls stand before the try block, so no handler runs: the exception leaves
\* websocket_endpoint, the connection is over and the session entry stays
SetupError(c) ==
    /\ conn[c] = "idle"
    /\ sessions' = create_session(sessions, c)
    /\ UNCHANGED <<conn, outbox, heard, received, sym_vars, diag_vars, rep_vars,
                   norm_vars, note_vars, adv_vars>>

\* The "stop" branch: build the report, send it, then reset the session
RecvStop(c) ==
    /\ conn[c] = "open"
    /\ \E structured \in build_structured_data(sessions[c].transcript) :
          outbox' = [outbox EXCEPT ![c] = [type |-> "structured", data |-> structured]]
    /\ sessions' = reset_session(sessions, c)
    /\ heard' = [heard EXCEPT ![c] = <<>>]
    /\ UNCHANGED <<conn, received, sym_vars, diag_vars, rep_vars, norm_vars, note_vars, adv_vars>>

\* The "bytes" branch when AcceptWaveform is true: a finalized utterance
RecvFinal(c, raw) ==
    /\ conn[c] = "open"
    /\ LET text == Strip(raw)
       IN  IF text # <<>>
           THEN /\ received < MaxUtterances
                /\ received' = received + 1
                /\ sessions' = AppendUtterance(sessions, c, text)
                /\ outbox' = [outbox EXCEPT ![c] =
                      [type |-> "transcript", text |-> text,
                       speaker |-> detect(sessions[c].last_speaker, text).ret]]
                /\ heard' = [heard EXCEPT ![c] = Append(@, text)]
           ELSE UNCHANGED <<received, sessions, outbox, heard>>
    /\ UNCHANGED <<conn, sym_vars, diag_vars, rep_vars, norm_vars, note_vars, adv_vars>>

\* The "bytes" branch when AcceptWaveform is false: a partial result
RecvPartial(c, partial_text) ==
    /\ conn[c] = "open"
    /\ outbox' = [outbox EXCEPT ![c] = [type |-> "partial", text |-> partial_text]]
    /\ UNCHANGED <<sessions, conn, heard, received, sym_vars, diag_vars, rep_vars, norm_vars, note_vars, adv_vars>>

\* except WebSocketDisconnect: cleanup_session(session_id)
Disconnect(c) ==
    /\ conn[c] = "open"
    /\ conn' = [conn EXCEPT ![c] = "idle"]
    /\ sessions' = cleanup_session(sessions, c)
    /\ outbox' = [outbox EXCEPT ![c] = NoMessage]
    /\ heard' = [heard EXCEPT ![c] = <<>>]
    /\ UNCHANGED <<received, sym_vars, diag_vars, rep_vars, norm_vars, note_vars, adv_vars>>

\* except Exception: try to send the error message, cleanup_session(session_id)
HandlerError(c) ==
    /\ conn[c] = "open"
    /\ conn' = [conn EXCEPT ![c] = "idle"]
    /\ outbox' = [outbox EXCEPT ![c] = [type |-> "error"]]
    /\ sessions' = cleanup_session(sessions, c)
    /\ heard' = [heard EXCEPT ![c] = <<>>]
    /\ UNCHANGED <<received, sym_vars, diag_vars, rep_vars, norm_vars, note_vars, adv_vars>>

Init == SessionInit /\ SymIdle /\ DiagIdle /\ RepIdle /\ NormIdle /\ NoteIdle /\ AdviceIdle

Next ==
    \E c \in ConnIds :
        \/ Connect(c)
        \/ SetupError(c)
        \/ RecvStop(c)
        \/ \E raw \in RecognizerResults : RecvFinal(c, raw)
        \/ \E p \in PartialTexts : RecvPartial(c, p)
        \/ Disconnect(c)
        \/ HandlerError(c)

Spec == Init /\ [][Next]_vars

\* ---------------------------------------------------------------------------
\* extract_symptoms, one sentence of its outer loop per step
\* ---------------------------------------------------------------------------
SymSentence ==
    /\ sym_out = None
    /\ si <= Len(sentences)
    /\ sym_st' = SymStep(sym_st, sentences[si])
    /\ si' = si + 1
    /\ UNCHANGED <<sentences, sym_out, session_vars, diag_vars,
                   rep_vars, norm_vars, note_vars, adv_vars>>

SymReturn ==
    /\ sym_out = None
    /\ si = Len(sentences) + 1
    /\ \E r \in SymResults(sym_st) : sym_out' = Some(r)
    /\ UNCHANGED <<sentences, si, sym_st, session_vars, diag_vars,
                   rep_vars, norm_vars, note_vars, adv_vars>>

InitSym ==
    /\ SessionInit /\ DiagIdle /\ RepIdle /\ NormIdle /\ NoteIdle /\ AdviceIdle
    /\ sentences \in SeqsUpTo(Fragments, MaxSentences)
    /\ si = 1
    /\ sym_st = SymInit
    /\ sym_out = None

NextSym == SymSentence \/ SymReturn

SpecSym == InitSym /\ [][NextSym]_vars

\* ---------------------------------------------------------------------------
\* extract_doctor_diagnosis, one entry of its loop per step
\* ---------------------------------------------------------------------------
DiagEntry ==
    /\ ei <= Len(entries)
    /\ diag_st' = DiagStep(diag_st, entries[ei])
    /\ emitted_at' = IF Len(diag_st'.diagnoses) > Len(diag_st.diagnoses)
                     THEN Append(emitted_at, ei) ELSE emitted_at
    /\ ei' = ei + 1
    /\ UNCHANGED <<entries, session_vars, sym_vars, rep_vars, norm_vars, note_vars, adv_vars>>

InitDiag ==
    /\ SessionInit /\ SymIdle /\ RepIdle /\ NormIdle /\ NoteIdle /\ AdviceIdle
    /\ entries \in SeqsUpTo(DiagEntries, MaxEntries)
    /\ ei = 1
    /\ diag_st = DiagInit
    /\ emitted_at = <<>>

NextDiag == DiagEntry

SpecDiag == InitDiag /\ [][NextDiag]_vars

\* ---------------------------------------------------------------------------
\* extract_doctor_advice, one entry of its loop per step
\* ---------------------------------------------------------------------------
AdviceEntry ==
    /\ adi <= Len(adv_entries)
    /\ advice_st' = AdviceStep(advice_st, adv_entries[adi])
    /\ adi' = adi + 1
    /\ UNCHANGED <<adv_entries, session_vars, sym_vars, diag_vars, rep_vars,
                   norm_vars, note_vars>>

InitAdvice ==
    /\ SessionInit /\ SymIdle /\ DiagIdle /\ RepIdle /\ NormIdle /\ NoteIdle
    /\ adv_entries \in SeqsUpTo(AdviceEntries, MaxEntries)
    /\ adi = 1
    /\ advice_st = <<>>

NextAdvice == AdviceEntry

SpecAdvice == InitAdvice /\ [][NextAdvice]_vars

\* ---------------------------------------------------------------------------
\* build_structured_data on the transcript of one consultation
\* ---------------------------------------------------------------------------
BuildReport ==
    /\ rep_out = None
    /\ \E structured \in build_structured_data(rep_transcript) :
          rep_out' = Some(structured)
    /\ UNCHANGED <<rep_transcript, session_vars, sym_vars, diag_vars, norm_vars, note_vars, adv_vars>>

\* The transcript is what the handler made of the recognized texts of a session
InitReport ==
    /\ SessionInit /\ SymIdle /\ DiagIdle /\ NormIdle /\ NoteIdle /\ AdviceIdle
    /\ rep_transcript \in
          {LabelFrom(InitialSpeaker, texts) : texts \in SeqsUpTo(ReportTexts, MaxReportLines)}
    /\ rep_out = None

NextReport == BuildReport

SpecReport == InitReport /\ [][NextReport]_vars

\* ---------------------------------------------------------------------------
\* normalize_hi, one line of its loop per step
\* ---------------------------------------------------------------------------
\* lines = text.split("\n")
NormInputLines == SplitOn(norm_text, {10})

NormLine ==
    /\ norm_out = None
    /\ ni <= Len(NormInputLines)
    /\ cleaned' = NormStep(cleaned, NormInputLines[ni])
    /\ ni' = ni + 1
    /\ UNCHANGED <<norm_text, norm_out, session_vars, sym_vars, diag_vars, rep_vars, note_vars, adv_vars>>

\* return "\n".join(cleaned)
NormReturn ==
    /\ norm_out = None
    /\ ni = Len(NormInputLines) + 1
    /\ norm_out' = Some(Join(NL, cleaned))
    /\ UNCHANGED <<norm_text, ni, cleaned, session_vars, sym_vars, diag_vars, rep_vars, note_vars, adv_vars>>

InitNorm ==
    /\ SessionInit /\ SymIdle /\ DiagIdle /\ RepIdle /\ NoteIdle /\ AdviceIdle
    /\ norm_text \in {Join(NL, ls) : ls \in SeqsUpTo(NormLines, MaxLines)}
    /\ ni = 1
    /\ cleaned = <<>>
    /\ norm_out = None

NextNorm == NormLine \/ NormReturn

SpecNorm == InitNorm /\ [][NextNorm]_vars

\* ---------------------------------------------------------------------------
\* generate_opd_note
\* ---------------------------------------------------------------------------
\* validate_input(structured_json): a ValueError leaves generate_opd_note
NoteValidate ==
    /\ note_pc = "start"
    /\ IF validate_input(payload) # None
       THEN /\ note_pc' = "done"
            /\ note_result' = validate_input(payload)
       ELSE /\ note_pc' = "validated"
            /\ note_result' = note_result
    /\ UNCHANGED <<payload, note_called, session_vars, sym_vars, diag_vars, rep_vars, norm_vars, adv_vars>>

\* The try block: call_ollama(prompt), validate_output(output, structured_json)
NoteCallOllama(service) ==
    /\ note_pc = "validated"
    /\ note_called' = TRUE
    /\ note_result' = Some(NoteOutcome(service))
    /\ note_pc' = "done"
    /\ UNCHANGED <<payload, session_vars, sym_vars, diag_vars, rep_vars, norm_vars, adv_vars>>

InitNote ==
    /\ SessionInit /\ SymIdle /\ DiagIdle /\ RepIdle /\ NormIdle /\ AdviceIdle
    /\ payload \in Payloads
    /\ note_pc = "start"
    /\ note_called = FALSE
    /\ note_result = None

NextNote ==
    \/ NoteValidate
    \/ \E service \in ServiceBehaviours : NoteCallOllama(service)

SpecNote == InitNote /\ [][NextNote]_vars

\* ---------------------------------------------------------------------------
\* Properties of extract_symptoms (checked under SpecSym)
\* ---------------------------------------------------------------------------
Range(s) == {s[i] : i \in DOMAIN s}

\* The fragment mentions the symptom: by a variant or by its canonical name
Mentions(sym, frag) == AnyIn(sym.variants, frag) \/ Contains(frag, sym.canonical)

\* The fragment mentions the symptom and the extractor takes the mention as negated
NegatedMention(sym, frag) == Mentions(sym, frag) /\ has_negation(frag, sym.variants)

\* The fragment mentions the symptom and the extractor takes the mention as positive
PositiveMention(sym, frag) == Mentions(sym, frag) /\ ~has_negation(frag, sym.variants)

\* The fragment matches a duration pattern and mentions no symptom
StandaloneDuration(frag) ==
    /\ FirstDuration(frag, 1) # None
    /\ \A k \in 1..Len(SYMPTOMS) : ~Mentions(SYMPTOMS[k], frag)

\* The fragment positively mentions some symptom
AnyPositive(frag) == \E k \in 1..Len(SYMPTOMS) : PositiveMention(SYMPTOMS[k], frag)

\* The first symptom, in lexicon order, that the fragment positively mentions
FirstPositive(frag) ==
    SYMPTOMS[SetMin({k \in 1..Len(SYMPTOMS) : PositiveMention(SYMPTOMS[k], frag)})]

\* The records held for a canonical name in a found_positive
RecordsOf(found_positive, canonical) ==
    {found_positive[i] : i \in PositiveIndex(found_positive, canonical)}

\* Some record for the name carries a duration
HasDuration(found_positive, canonical) ==
    \E e \in RecordsOf(found_positive, canonical) : "duration" \in DOMAIN e

\* found_positive as it is before sentence j is processed
PositiveBefore(j) == SymLoop(SymInit, SubSeq(sentences, 1, j - 1)).found_positive

\* Sentence i is a standalone duration still pending when sentence j, the next
\* positive symptom fragment, arrives: nothing between them mentions a symptom
\* positively or is another standalone duration, and j brings no duration of its
\* own for a symptom whose record has none yet
PendingReaches(i, j) ==
    /\ i < j /\ j <= Len(sentences)
    /\ StandaloneDuration(sentences[i])
    /\ \A m \in (i + 1)..(j - 1) :
          ~AnyPositive(sentences[m]) /\ ~StandaloneDuration(sentences[m])
    /\ AnyPositive(sentences[j])
    /\ FirstDuration(sentences[j], 1) = None
    /\ ~HasDuration(PositiveBefore(j), FirstPositive(sentences[j]).canonical)

\* C1: the returned negatives and the names of the returned symptom records are
\* disjoint, and a symptom with a positive mention in any fragment is not among
\* the returned negatives, wherever its negated mentions are.
C1_NegativesDisjointFromPositives ==
    sym_out # None =>
        LET r == sym_out[1]
        IN  /\ Range(r.negatives) \cap PositiveNames(r.symptoms) = {}
            /\ \A k \in 1..Len(SYMPTOMS), i \in 1..Len(sentences) :
                  PositiveMention(SYMPTOMS[k], sentences[i])
                      => SYMPTOMS[k].canonical \notin Range(r.negatives)

\* extract_symptoms has returned for a list with a negated mention of one symptom
\* before and another after a positive mention of it
C1_Witness ==
    /\ sym_out # None
    /\ \E k \in 1..Len(SYMPTOMS) : \E h, i, j \in 1..Len(sentences) :
          /\ h < i /\ i < j
          /\ NegatedMention(SYMPTOMS[k], sentences[h])
          /\ PositiveMention(SYMPTOMS[k], sentences[i])
          /\ NegatedMention(SYMPTOMS[k], sentences[j])
          /\ SYMPTOMS[k].canonical \in sym_st.found_negative

\* C2: a standalone duration fragment followed by the next positive symptom
\* fragment, which has no duration of its own and whose record has none yet,
\* leaves that symptom's record with the standalone fragment's duration.
C2_StandaloneDurationInherited ==
    \A i, j \in 1..Len(sentences) :
        (PendingReaches(i, j) /\ si = j + 1) =>
            \E e \in RecordsOf(sym_st.found_positive, FirstPositive(sentences[j]).canonical) :
                /\ "duration" \in DOMAIN e
                /\ Some(e.duration) = FirstDuration(sentences[i], 1)

\* C3: the pending duration is one slot, consumed once: of two standalone
\* durations before the first positive symptom fragment the symptom inherits the
\* second, and a different symptom mentioned positively later, without a duration
\* of its own, inherits neither.
C3_PendingDurationSingleSlot ==
    \A h, i, j \in 1..Len(sentences) :
        ( /\ h < i /\ i < j /\ j < si
          /\ StandaloneDuration(sentences[h])
          /\ FirstDuration(sentences[h], 1) # FirstDuration(sentences[i], 1)
          /\ \A m \in (h + 1)..(i - 1) : ~AnyPositive(sentences[m])
          /\ PendingReaches(i, j) ) =>
            /\ si = j + 1 =>
                  \E e \in RecordsOf(sym_st.found_positive, FirstPositive(sentences[j]).canonical) :
                      /\ "duration" \in DOMAIN e
                      /\ Some(e.duration) = FirstDuration(sentences[i], 1)
            /\ \A m \in (j + 1)..Len(sentences) :
                  ( /\ si = m + 1
                    /\ \A n \in (j + 1)..(m - 1) :
                          ~AnyPositive(sentences[n]) /\ ~StandaloneDuration(sentences[n])
                    /\ AnyPositive(sentences[m])
                    /\ FirstPositive(sentences[m]) # FirstPositive(sentences[j])
                    /\ FirstDuration(sentences[m], 1) = None
                    /\ ~HasDuration(PositiveBefore(m), FirstPositive(sentences[m]).canonical) ) =>
                        ~HasDuration(sym_st.found_positive, FirstPositive(sentences[m]).canonical)

\* ---------------------------------------------------------------------------
\* Properties of extract_doctor_diagnosis (checked under SpecDiag)
\* ---------------------------------------------------------------------------
\* The space-joined trimmed texts of entries i..j
JoinedTexts(i, j) == Join(SP, [k \in 1..(j - i + 1) |-> Strip(entries[i + k - 1].text)])

\* Entries i..j are a contiguous run of doctor entries
DoctorRun(i, j) == i <= j /\ \A k \in i..j : entries[k].speaker = "doctor"

\* The buffer is empty when entry i is reached: i starts the list, follows a
\* non-doctor entry, or follows the entry at which the last diagnosis was emitted
StartsFresh(i) ==
    \/ i = 1
    \/ entries[i - 1].speaker # "doctor"
    \/ (i - 1) \in Range(emitted_at)

\* Entries i and i+2 are doctor entries around a non-doctor entry, and only the
\* two doctor texts together would make a diagnostic signal
SplitByPatient(i) ==
    /\ i + 2 <= Len(entries)
    /\ entries[i].speaker = "doctor"
    /\ entries[i + 1].speaker # "doctor"
    /\ entries[i + 2].speaker = "doctor"
    /\ ~contains_diagnosis_signal(Strip(entries[i].text))
    /\ ~contains_diagnosis_signal(Strip(entries[i + 2].text))
    /\ contains_diagnosis_signal(Strip(entries[i].text) \o SP \o Strip(entries[i + 2].text))

\* C4: every emitted diagnosis is the space-joined trimmed text of one contiguous
\* run of doctor entries, and two doctor entries that only jointly hold a signal
\* emit nothing when a non-doctor entry stands between them.
C4_DiagnosisNeverSpansPatientTurn ==
    /\ \A n \in 1..Len(diag_st.diagnoses) :
          \E i, j \in 1..Len(entries) :
              /\ j = emitted_at[n]
              /\ DoctorRun(i, j)
              /\ diag_st.diagnoses[n] = JoinedTexts(i, j)
    /\ \A i \in 1..Len(entries) :
          (SplitByPatient(i) /\ ei > i + 2) => (i + 2) \notin Range(emitted_at)

\* The loop has passed two doctor entries that only jointly hold a signal, with a
\* non-doctor entry between them
C4_Witness ==
    \E i \in 1..Len(entries) :
        /\ SplitByPatient(i)
        /\ ei > i + 2
        /\ diag_st.buffer = Strip(entries[i + 2].text)

\* Entries i, i+1 are doctor entries reached with an empty buffer, the first
\* alone holds no signal and their space-joined concatenation does
JointSignal(i) ==
    /\ i + 1 <= Len(entries)
    /\ StartsFresh(i)
    /\ DoctorRun(i, i + 1)
    /\ ~contains_diagnosis_signal(Strip(entries[i].text))
    /\ contains_diagnosis_signal(JoinedTexts(i, i + 1))

\* C5: two consecutive doctor entries of which the first alone holds no signal
\* and the space-joined concatenation does emit exactly one diagnosis, equal to
\* that concatenation; for the list of just these two entries it is the whole
\* output.
C5_TwoTurnDiagnosisIsTheConcatenation ==
    \A i \in 1..Len(entries) :
        (JointSignal(i) /\ ei > i + 1) =>
            /\ Cardinality({n \in 1..Len(emitted_at) : emitted_at[n] \in {i, i + 1}}) = 1
            /\ \A n \in 1..Len(emitted_at) :
                  emitted_at[n] \in {i, i + 1} =>
                      /\ emitted_at[n] = i + 1
                      /\ diag_st.diagnoses[n] = JoinedTexts(i, i + 1)
            /\ (Len(entries) = 2 /\ ei = 3) => diag_st.diagnoses = <<JoinedTexts(1, 2)>>

\* The two-entry list of the test: "यह बुखार का" then "केस लग रहा है", both doctor
C5_Witness ==
    /\ entries = <<[speaker |-> "doctor", text |-> U_yah_bukhar_ka],
                   [speaker |-> "doctor", text |-> U_case_lag_raha_hai]>>
    /\ ei = 3
    /\ JointSignal(1)
    /\ diag_st.diagnoses = <<U_yah_bukhar_ka \o SP \o U_case_lag_raha_hai>>

\* ---------------------------------------------------------------------------
\* Properties of the speaker detector and the session handler (checked under Spec)
\* ---------------------------------------------------------------------------
\* The step appends one entry to the transcript of connection c: the handler
\* called detect on a finalized utterance
Appended(c) ==
    /\ c \in DOMAIN sessions /\ c \in DOMAIN sessions'
    /\ Len(sessions'[c].transcript) = Len(sessions[c].transcript) + 1

\* The entry the step appended
NewEntry(c) == sessions'[c].transcript[Len(sessions'[c].transcript)]

\* The detector's state is what it was, and the label is that state
SpeakerKept(c) ==
    /\ NewEntry(c).speaker = sessions[c].last_speaker
    /\ sessions'[c].last_speaker = sessions[c].last_speaker

HasDoctorCue(text) == AnyIn(DOCTOR_CUES, Strip(text))
HasImperativeCue(text) == AnyIn(DOCTOR_IMPERATIVES, Strip(text))
HasPatientCue(text) == AnyIn(PATIENT_CUES, Strip(text))
CueFree(text) == ~HasDoctorCue(text) /\ ~HasImperativeCue(text) /\ ~HasPatientCue(text)

\* C6: detect on an utterance of trimmed length 4 or less returns last_speaker
\* and leaves it unchanged, whatever cues the utterance contains.
C6_ShortUtteranceKeepsSpeaker ==
    [][\A c \in ConnIds :
          (Appended(c) /\ Len(Strip(NewEntry(c).text)) <= 4) => SpeakerKept(c)]_vars

\* C7: detect on an utterance with no doctor, imperative or patient cue returns
\* the last_speaker the detector had and does not change it.
C7_CueFreeUtteranceKeepsSpeaker ==
    [][\A c \in ConnIds :
          (Appended(c) /\ CueFree(NewEntry(c).text)) => SpeakerKept(c)]_vars

\* A cue-free utterance was labelled doctor, after a doctor utterance
C7_Witness ==
    \E c \in DOMAIN sessions :
        LET tr == sessions[c].transcript
        IN  /\ Len(tr) >= 2
            /\ CueFree(tr[Len(tr)].text)
            /\ tr[Len(tr)].speaker = "doctor"
            /\ tr[Len(tr) - 1].speaker = "doctor"
            /\ sessions[c].last_speaker = "doctor"

StopStep(c) ==
    /\ conn[c] = "open" /\ conn'[c] = "open"
    /\ outbox'[c].type = "structured"
    /\ outbox'[c] # outbox[c] \/ heard'[c] # heard[c]

EmptyReport ==
    [speaker |-> "patient", chief_complaint |-> None, symptoms |-> <<>>,
     negatives |-> <<>>, medications |-> <<>>, diagnosis |-> <<>>, advice |-> <<>>]

\* C9: at the stop signal the report is built from the whole transcript gathered
\* since the previous reset, and only then is the state reset: afterwards the
\* transcript is empty and last_speaker is patient, so a report holds nothing of
\* an earlier consultation on the connection.
C9_StopReportsThenResets ==
    [][\A c \in ConnIds :
          StopStep(c) =>
              /\ outbox'[c].data \in build_structured_data(LabelFrom("patient", heard[c]))
              /\ sessions'[c].transcript = <<>>
              /\ sessions'[c].last_speaker = "patient"]_vars

\* A consultation that ended on a doctor utterance, with a symptom and a diagnosis
\* found, has been reported and the session reset
C9_Witness ==
    \E c \in DOMAIN sessions :
        /\ outbox[c].type = "structured"
        /\ outbox[c].data.symptoms # <<>>
        /\ outbox[c].data.diagnosis = <<U_case_lag_raha_hai>>
        /\ received = 2
        /\ sessions[c].transcript = <<>>
        /\ sessions[c].last_speaker = "patient"

\* C10: a report assembled from an empty transcript does not fail and has
\* chief_complaint null and empty symptoms, negatives, medications, diagnosis
\* and advice.
C10_EmptyTranscriptGivesEmptyReport ==
    [][\A c \in ConnIds :
          (StopStep(c) /\ heard[c] = <<>>) =>
              /\ outbox'[c].data = EmptyReport
              /\ c \in DOMAIN sessions']_vars

\* The stop signal was answered before any utterance was ever recognized
C10_Witness ==
    \E c \in DOMAIN sessions :
        /\ received = 0
        /\ outbox[c] = [type |-> "structured", data |-> EmptyReport]
        /\ sessions[c].transcript = <<>>

\* ---------------------------------------------------------------------------
\* Properties of the assembled report (checked under SpecReport)
\* ---------------------------------------------------------------------------
\* The trimmed texts of the doctor utterances that hold an advisory cue
AdvisoryDoctorTexts(transcript) ==
    {Strip(transcript[i].text) : i \in
        {i \in 1..Len(transcript) : /\ transcript[i].speaker = "doctor"
                                    /\ AnyIn(ADVICE_CUES, Strip(transcript[i].text))}}

SentenceStep == si' = si + 1 /\ si <= Len(sentences)

Tokens(line) == StripNonEmpty(SplitOn(line, {9, 10, 11, 12, 13, 32}))

\* The tokens are filler phrases one after the other, and nothing else
\* (a punctuation mark standing alone does not count as a token)
RECURSIVE MadeOfFillers(_)
MadeOfFillers(tokens) ==
    \/ tokens = <<>>
    \/ Head(tokens) \in FillerLeftovers /\ MadeOfFillers(Tail(tokens))
    \/ \E k \in 1..Len(DROP_LINES) :
          LET phrase == Tokens(DROP_LINES[k])
          IN  /\ Len(phrase) <= Len(tokens)
              /\ SubSeq(tokens, 1, Len(phrase)) = phrase
              /\ MadeOfFillers(SubSeq(tokens, Len(phrase) + 1, Len(tokens)))

\* The step is one iteration of the loop of normalize_hi
LineStep == ni' = ni + 1 /\ ni <= Len(NormInputLines)

\* The line the step looks at, trimmed and case-folded
StepLine == Lower(Strip(NormInputLines[ni]))

\* C13: a line with a token that is not a filler phrase is never dropped, also
\* when filler phrases occur in the line or inside its words: it is kept in full.
C13_NonFillerLineNeverDropped ==
    [][LineStep =>
          ((StepLine # <<>> /\ ~MadeOfFillers(Tokens(StepLine)))
              => cleaned' = Append(cleaned, StepLine))]_vars

\* The step is the return of normalize_hi
ReturnStep == norm_out = None /\ norm_out' # None

\* C14: every line that consists of filler phrases only (one phrase, one phrase
\* repeated, several phrases combined) is dropped; the lines that remain are
\* kept trimmed and case-folded, in their original order, and the result is
\* those lines joined by newlines.
C14_FillerLinesDroppedRestJoined ==
    [][/\ LineStep =>
            IF MadeOfFillers(Tokens(StepLine))
            THEN cleaned' = cleaned
            ELSE cleaned' \in {cleaned, Append(cleaned, StepLine)}
       /\ ReturnStep => norm_out' = Some(Join(NL, cleaned))]_vars

\* ---------------------------------------------------------------------------
\* Further properties of the assembled report (checked under SpecReport)
\* ---------------------------------------------------------------------------
\* The medications found in the newline-joined text of the patient's utterances
PatientOnlyMedications ==
    Range(extract_medications(Join(NL, extract_speaker_lines(rep_transcript, "patient"))))

\* C15: the medications extracted from the text of all utterances, which are the
\* report's medications, include every medication extracted from the text of the
\* patient's utterances alone.
C15_AllTextMedicationsIncludePatientOnly ==
    rep_out # None =>
        /\ PatientOnlyMedications \subseteq Range(rep_out[1].medications)
        /\ PatientOnlyMedications
              \subseteq Range(extract_medications(Join(NL, AllLines(rep_transcript))))

\* A report for a transcript in which the patient names one medicine and the
\* doctor another
C15_Witness ==
    /\ rep_out # None
    /\ PatientOnlyMedications = {MEDICATIONS[1].canonical}
    /\ Range(rep_out[1].medications) = {MEDICATIONS[1].canonical, MEDICATIONS[2].canonical}

\* The value is a list
IsList(v) == DOMAIN v = 1..Len(v)

ReportFields ==
    {"speaker", "chief_complaint", "symptoms", "negatives", "medications",
     "diagnosis", "advice"}

\* C16: the report has exactly the fields speaker, chief_complaint, symptoms,
\* negatives, medications, diagnosis and advice, and the last five are lists.
C16_ReportHasExactlySevenFields ==
    rep_out # None =>
        /\ DOMAIN rep_out[1] = ReportFields
        /\ \A f \in {"symptoms", "negatives", "medications", "diagnosis", "advice"} :
              IsList(rep_out[1][f])

\* A report in which each of the five lists has an element
C16_Witness ==
    /\ rep_out # None
    /\ DOMAIN rep_out[1] = ReportFields
    /\ \A f \in {"symptoms", "negatives", "medications", "diagnosis", "advice"} :
          rep_out[1][f] # <<>>

\* ---------------------------------------------------------------------------
\* Properties of generate_opd_note (checked under SpecNote)
\* ---------------------------------------------------------------------------
\* The payload lacks one of the five list fields, or holds a non-list under one
Malformed(structured_json) ==
    \/ ~structured_json.is_dict
    \/ \E k \in ListFields :
          \/ k \notin DOMAIN structured_json.fields
          \/ structured_json.fields[k] # "list"

\* C17: a payload that lacks one of symptoms, negatives, medications, diagnosis,
\* advice, or holds a non-list under one of them, is rejected with a validation
\* error and the text-generation service is not called.
C17_MalformedPayloadRejected ==
    Malformed(payload) =>
        /\ ~note_called
        /\ note_pc # "validated"
        /\ note_pc = "done" => note_result = Some("ValueError")

\* The position of the first occurrence of x in xs
FirstIndex(xs, x) == SetMin({i \in 1..Len(xs) : xs[i] = x})

\* list holds every string of raw once, ordered by first occurrence in raw
FirstOccurrencesOf(list, raw) ==
    /\ \A i, j \in 1..Len(list) : list[i] = list[j] => i = j
    /\ Range(list) = Range(raw)
    /\ \A i, j \in 1..Len(list) :
          i < j => FirstIndex(raw, list[i]) < FirstIndex(raw, list[j])

\* C18: the report's diagnosis and advice lists hold no string twice; each is its
\* extractor's output with every repetition after the first removed, in the order
\* of the first occurrences.
C18_DiagnosisAndAdviceDeduplicated ==
    rep_out # None =>
        /\ FirstOccurrencesOf(rep_out[1].diagnosis, extract_doctor_diagnosis(rep_transcript))
        /\ FirstOccurrencesOf(rep_out[1].advice, extract_doctor_advice(rep_transcript))

\* The doctor repeated a statement after another one: the extractors returned the
\* statement twice and the report lists it once, before the other
C18_Witness ==
    /\ rep_out # None
    /\ extract_doctor_diagnosis(rep_transcript)
          = <<R_infection_hai_aaram_karen, U_case_lag_raha_hai, R_infection_hai_aaram_karen>>
    /\ rep_out[1].diagnosis = <<R_infection_hai_aaram_karen, U_case_lag_raha_hai>>
    /\ extract_doctor_advice(rep_transcript)
          = <<R_infection_hai_aaram_karen, R_infection_hai_aaram_karen>>
    /\ rep_out[1].advice = <<R_infection_hai_aaram_karen>>

\* The fragments the symptoms of the report are extracted from
PatientFragments ==
    segment_hi(normalize_hi(Join(NL, extract_speaker_lines(rep_transcript, "patient"))))

\* Per symptom of the lexicon, the fragments that mention it positively
PositiveFragments(frags) ==
    [k \in 1..Len(SYMPTOMS) |->
        {i \in 1..Len(frags) : PositiveMention(SYMPTOMS[k], frags[i])}]

DurationOf(found_positive, canonical) ==
    IF HasDuration(found_positive, canonical)
    THEN Some(GetEntry(found_positive, canonical).duration)
    ELSE None

\* C20: once the record of a symptom has a duration, no later fragment changes
\* it: the duration of the earliest fragment that supplied one stays.
C20_FirstDurationWins ==
    [][\A k \in 1..Len(SYMPTOMS) :
          DurationOf(sym_st.found_positive, SYMPTOMS[k].canonical) # None =>
              DurationOf(sym_st'.found_positive, SYMPTOMS[k].canonical)
                  = DurationOf(sym_st.found_positive, SYMPTOMS[k].canonical)]_vars

\* C20 (amended): the last duration wins. A fragment that mentions the symptom
\* positively and matches a duration pattern sets the record's duration to its
\* own match, replacing one the record had; any other fragment leaves the
\* record's duration as it was.
C20_LastDurationWins ==
    [][SentenceStep =>
          \A k \in 1..Len(SYMPTOMS) :
              DurationOf(sym_st'.found_positive, SYMPTOMS[k].canonical) =
                  IF /\ PositiveMention(SYMPTOMS[k], sentences[si])
                     /\ FirstDuration(sentences[si], 1) # None
                  THEN FirstDuration(sentences[si], 1)
                  ELSE DurationOf(sym_st.found_positive, SYMPTOMS[k].canonical)]_vars

\* A second fragment with a duration of its own has replaced the duration the
\* first fragment gave the symptom
C20_Witness ==
    /\ si = 3
    /\ sentences[1] = F_parson_se_bukhar_hai
    /\ sentences[2] = F_3_din_se_bukhar_hai
    /\ FirstDuration(sentences[1], 1) # FirstDuration(sentences[2], 1)
    /\ DurationOf(sym_st.found_positive, SYMPTOMS[1].canonical)
          = FirstDuration(F_3_din_se_bukhar_hai, 1)

\* ---------------------------------------------------------------------------
\* Duration and location of a symptom record, continued (checked under SpecSym)
\* ---------------------------------------------------------------------------
\* The patterns of the table that match the fragment
MatchingPatterns(frag) ==
    {k \in 1..Len(DURATION_PATTERNS) : PatternSearch(DURATION_PATTERNS[k], frag) # None}

\* The fragment's own duration: the match of the first pattern, in table order,
\* that matches it
OwnDuration(frag) ==
    IF MatchingPatterns(frag) = {} THEN None
    ELSE PatternSearch(DURATION_PATTERNS[SetMin(MatchingPatterns(frag))], frag)

\* C21: after a fragment that mentions a symptom positively and matches a duration
\* pattern, the record's duration is the fragment's own match, that of the first
\* pattern that matches, whatever standalone duration came before.
C21_OwnDurationTakesPrecedence ==
    [][SentenceStep =>
          \A k \in 1..Len(SYMPTOMS) :
              ( /\ PositiveMention(SYMPTOMS[k], sentences[si])
                /\ MatchingPatterns(sentences[si]) # {} ) =>
                  DurationOf(sym_st'.found_positive, SYMPTOMS[k].canonical)
                      = OwnDuration(sentences[si])]_vars

\* After a standalone duration, a fragment that matches both patterns, the second
\* one further left, has given the symptom the match of the first pattern
C21_Witness ==
    /\ si = 3
    /\ StandaloneDuration(sentences[1])
    /\ sentences[2] = F_parson_se_bukhar_hai_2_din
    /\ MatchingPatterns(sentences[2]) = {1, 2}
    /\ DurationOf(sym_st.found_positive, SYMPTOMS[1].canonical)
          = PatternSearch(DURATION_PATTERNS[1], sentences[2])
    /\ OwnDuration(sentences[1]) # OwnDuration(sentences[2])

\* The locations of the table of which the fragment holds a variant
LocationsIn(frag) ==
    {k \in 1..Len(LOCATIONS) : AnyIn(LOCATIONS[k].variants, frag)}

\* The location of the record held for the name: None without record or location
LocationOf(found_positive, canonical) ==
    IF \E e \in RecordsOf(found_positive, canonical) : "location" \in DOMAIN e
    THEN Some(GetEntry(found_positive, canonical).location)
    ELSE None

SaidNegated(sym, frag) == Mentions(sym, frag) /\ AnyIn(NEGATIONS, frag)

\* The fragment mentions the symptom and holds no negation marker
SaidPositive(sym, frag) == Mentions(sym, frag) /\ ~AnyIn(NEGATIONS, frag)

\* The sentences that mention symptom k of the lexicon without negation
SaidPositiveAt(k) ==
    {i \in 1..Len(sentences) : SaidPositive(SYMPTOMS[k], sentences[i])}

\* The lexicon index of a canonical name
LexiconIndex(canonical) ==
    CHOOSE k \in 1..Len(SYMPTOMS) : SYMPTOMS[k].canonical = canonical

\* C23: extract_symptoms returns at most one record per canonical symptom, every
\* record is of a symptom with a positive mention, the records are in the order
\* of the symptoms' first positive mentions, and a symptom whose every mention
\* was negated has no record and is in negatives.
C23_OneRecordPerSymptomInMentionOrder ==
    sym_out # None =>
        LET r == sym_out[1]
            name == [i \in 1..Len(r.symptoms) |-> r.symptoms[i].name]
        IN  /\ \A i, j \in 1..Len(name) : name[i] = name[j] => i = j
            /\ \A i \in 1..Len(name) : SaidPositiveAt(LexiconIndex(name[i])) # {}
            /\ \A i, j \in 1..Len(name) :
                  i < j =>
                      LET ki == LexiconIndex(name[i])
                          kj == LexiconIndex(name[j])
                          fi == SetMin(SaidPositiveAt(ki))
                          fj == SetMin(SaidPositiveAt(kj))
                      IN  fi < fj \/ (fi = fj /\ ki < kj)
            /\ \A k \in 1..Len(SYMPTOMS) :
                  ( /\ \E i \in 1..Len(sentences) : Mentions(SYMPTOMS[k], sentences[i])
                    /\ SaidPositiveAt(k) = {} ) =>
                      /\ SYMPTOMS[k].canonical \notin Range(name)
                      /\ SYMPTOMS[k].canonical \in Range(r.negatives)


\* The fragment holds the symptom's canonical name and none of its variants
CanonicalOnlyMention(sym, frag) ==
    Contains(frag, sym.canonical) /\ ~AnyIn(sym.variants, frag)

\* C24: a fragment that holds a symptom's canonical name and none of its variants
\* is negation-checked like a variant mention: with a negation marker the symptom
\* goes to negatives and its record is left alone, without one it gets a record.
C24_CanonicalMentionIsNegationChecked ==
    [][SentenceStep =>
          \A k \in 1..Len(SYMPTOMS) :
              CanonicalOnlyMention(SYMPTOMS[k], sentences[si]) =>
                  IF SaidNegated(SYMPTOMS[k], sentences[si])
                  THEN /\ SYMPTOMS[k].canonical \in sym_st'.found_negative
                       /\ RecordsOf(sym_st'.found_positive, SYMPTOMS[k].canonical)
                              = RecordsOf(sym_st.found_positive, SYMPTOMS[k].canonical)
                  ELSE SYMPTOMS[k].canonical \in PositiveNames(sym_st'.found_positive)]_vars


\* ---------------------------------------------------------------------------
\* The buffer of extract_doctor_diagnosis (checked under SpecDiag)
\* ---------------------------------------------------------------------------
\* The entry at which the buffer that holds entry j was started
BufferStart(j) == SetMax({i \in 1..j : StartsFresh(i)})

\* C25: the buffer is empty right after a flush and right after a non-doctor
\* entry; the emitted diagnoses are non-empty, hold a signal and are the joined
\* texts of disjoint runs of doctor entries; and a doctor entry emits as soon as
\* the accumulated buffer holds a signal, so a kept buffer never holds one.
C25_BufferClearedAndFlushedEarliest ==
    /\ \A j \in 1..(ei - 1) :
          (entries[j].speaker # "doctor" \/ j \in Range(emitted_at)) =>
              (ei = j + 1 => diag_st.buffer = <<>>)
    /\ Len(emitted_at) = Len(diag_st.diagnoses)
    /\ \A n \in 1..Len(diag_st.diagnoses) :
          /\ diag_st.diagnoses[n] # <<>>
          /\ contains_diagnosis_signal(diag_st.diagnoses[n])
          /\ DoctorRun(BufferStart(emitted_at[n]), emitted_at[n])
          /\ diag_st.diagnoses[n] = JoinedTexts(BufferStart(emitted_at[n]), emitted_at[n])
          /\ n > 1 => BufferStart(emitted_at[n]) > emitted_at[n - 1]
    /\ \A j \in 1..(ei - 1) :
          entries[j].speaker = "doctor" =>
              (j \in Range(emitted_at)
                  <=> contains_diagnosis_signal(JoinedTexts(BufferStart(j), j)))
    /\ ~contains_diagnosis_signal(diag_st.buffer)

\* Three doctor entries in a row: the second completed a signal and was flushed,
\* the third started a buffer of its own
C25_Witness ==
    /\ ei = 4
    /\ DoctorRun(1, 3)
    /\ emitted_at = <<2>>
    /\ diag_st.diagnoses = <<JoinedTexts(1, 2)>>
    /\ diag_st.buffer = Strip(entries[3].text)
    /\ diag_st.buffer # <<>>
    /\ contains_diagnosis_signal(JoinedTexts(2, 3))


\* ---------------------------------------------------------------------------
\* Emissions of extract_doctor_advice (checked under SpecAdvice)
\* ---------------------------------------------------------------------------
\* The entries before entry n that are advice: doctor entries whose trimmed text
\* is non-empty and holds at least one advisory cue
AdvisoryEntries(n) ==
    {j \in 1..(n - 1) :
        /\ adv_entries[j].speaker = "doctor"
        /\ Strip(adv_entries[j].text) # <<>>
        /\ \E c \in 1..Len(ADVICE_CUES) : Contains(Strip(adv_entries[j].text), ADVICE_CUES[c])}

\* The cues the trimmed text of entry j holds
CuesOf(j) ==
    {c \in 1..Len(ADVICE_CUES) : Contains(Strip(adv_entries[j].text), ADVICE_CUES[c])}

\* C26: the advice list holds, in transcript order, exactly one string per doctor
\* entry whose trimmed text is non-empty and holds a cue, however many cues it
\* holds, namely that trimmed text; patient entries and cue-free doctor entries
\* add nothing, and a repeated utterance is emitted once per repetition.
C26_OneAdvicePerAdvisoryEntry ==
    /\ Len(advice_st) = Cardinality(AdvisoryEntries(adi))
    /\ \A j \in AdvisoryEntries(adi) :
          advice_st[Cardinality({i \in AdvisoryEntries(adi) : i <= j})]
              = Strip(adv_entries[j].text)

\* The doctor said the same one-cue sentence twice and then one with three cues:
\* three emissions, the first two equal
C26_Witness ==
    /\ adi = 4
    /\ AdvisoryEntries(adi) = {1, 2, 3}
    /\ adv_entries[1] = adv_entries[2]
    /\ Cardinality(CuesOf(1)) = 1
    /\ Cardinality(CuesOf(3)) = 3
    /\ advice_st = <<U_aaram_karen, U_aaram_karen, Strip(A_subah_sham_aaram_karen)>>


\* ---------------------------------------------------------------------------
\* The medications of the report (checked under SpecReport)
\* ---------------------------------------------------------------------------
\* The text extract_medications is given: the newline-joined text of all utterances
MedicationText == Join(NL, AllLines(rep_transcript))

\* The medications of the lexicon of which the text holds a variant
MedicationsIn(text) ==
    {k \in 1..Len(MEDICATIONS) : AnyIn(MEDICATIONS[k].variants, text)}

\* The lexicon index of a canonical medication name
MedicationIndex(canonical) ==
    CHOOSE k \in 1..Len(MEDICATIONS) : MEDICATIONS[k].canonical = canonical

\* C27: the medications hold each canonical name at most once, exactly those of
\* which a variant occurs in the text, in the order of the lexicon, whatever the
\* order and number of the mentions.
C27_MedicationsOncePerNameInLexiconOrder ==
    rep_out # None =>
        LET meds == rep_out[1].medications
        IN  /\ \A i, j \in 1..Len(meds) : meds[i] = meds[j] => i = j
            /\ Range(meds) = {MEDICATIONS[k].canonical : k \in MedicationsIn(MedicationText)}
            /\ \A i, j \in 1..Len(meds) :
                  i < j => MedicationIndex(meds[i]) < MedicationIndex(meds[j])

\* The second medicine of the lexicon is named first and the first one twice
\* after it: the report lists each once, the first of the lexicon first
C27_Witness ==
    /\ rep_out # None
    /\ AllLines(rep_transcript) = <<R_pain_subah_len, R_dolo_li_hai, R_dolo_li_hai>>
    /\ rep_out[1].medications = <<MEDICATIONS[1].canonical, MEDICATIONS[2].canonical>>


\* ---------------------------------------------------------------------------
\* The detector's state and the transcript of a session (checked under Spec)
\* ---------------------------------------------------------------------------
\* The step creates the session of connection c
Created(c) == c \notin DOMAIN sessions /\ c \in DOMAIN sessions'

\* last_speaker is doctor or patient in every session, patient in a session just
\* created and patient right after the reset at the stop signal
LastSpeakerWellFormed ==
    /\ \A c \in DOMAIN sessions' : sessions'[c].last_speaker \in {"doctor", "patient"}
    /\ \A c \in ConnIds :
          /\ Created(c) => sessions'[c].last_speaker = "patient"
          /\ StopStep(c) => sessions'[c].last_speaker = "patient"

\* C28 as stated: last_speaker is always doctor or patient, patient at
\* construction and right after reset, and the first utterance of a consultation
\* that has no cue is labelled patient. (The utterances before it are taken
\* longer than four characters, so that their labels do not rest on the rule
\* for short utterances.)
C28_FirstCueFreeUtteranceIsPatient ==
    [][/\ LastSpeakerWellFormed
       /\ \A c \in ConnIds :
             ( /\ Appended(c)
               /\ CueFree(NewEntry(c).text)
               /\ \A i \in 1..Len(sessions[c].transcript) :
                     /\ ~CueFree(sessions[c].transcript[i].text)
                     /\ Len(Strip(sessions[c].transcript[i].text)) > 4 ) =>
                 NewEntry(c).speaker = "patient"]_vars

\* C28 amended: last_speaker is always doctor or patient, patient at construction
\* and right after reset, so an utterance without cue that opens a consultation
\* is labelled patient.
C28_OpeningCueFreeUtteranceIsPatient ==
    [][/\ LastSpeakerWellFormed
       /\ \A c \in ConnIds :
             ( /\ Appended(c)
               /\ CueFree(NewEntry(c).text)
               /\ sessions[c].transcript = <<>> ) =>
                 /\ NewEntry(c).speaker = "patient"
                 /\ sessions'[c].last_speaker = "patient"]_vars

\* One session was reset after a consultation that ended on a doctor utterance;
\* another, just created, has labelled an opening utterance without cue patient
C28_Witness ==
    \E c, d \in DOMAIN sessions :
        /\ c # d
        /\ outbox[c].type = "structured"
        /\ outbox[c].data.diagnosis = <<U_case_lag_raha_hai>>
        /\ outbox[c].data.symptoms = <<>>
        /\ received = 2
        /\ sessions[c].transcript = <<>>
        /\ sessions[c].last_speaker = "patient"
        /\ Len(sessions[d].transcript) = 1
        /\ CueFree(sessions[d].transcript[1].text)
        /\ sessions[d].transcript[1].speaker = "patient"
        /\ sessions[d].last_speaker = "patient"


\* The session of connection c exists before and after the step
SessionKept(c) == c \in DOMAIN sessions /\ c \in DOMAIN sessions'

\* The step is the handler of connection c taking a finalized utterance with
\* non-empty trimmed text
FinalStep(c) == Len(heard'[c]) = Len(heard[c]) + 1

\* The texts of the entries of a transcript
TextsOf(transcript) == [i \in 1..Len(transcript) |-> transcript[i].text]

\* C29: within a consultation the transcript is append-only in arrival order. A
\* finalized utterance with non-empty trimmed text appends one entry at the end,
\* labelled as the detector returned; the entries before it stay as they are;
\* the stop signal clears the transcript; every other step, an utterance with
\* empty text among them, leaves transcript and detector alone.
C29_TranscriptAppendOnly ==
    [][\A c \in ConnIds :
          SessionKept(c) =>
              LET tr == sessions[c].transcript
                  tr2 == sessions'[c].transcript
              IN  IF StopStep(c) THEN tr2 = <<>>
                  ELSE IF FinalStep(c)
                  THEN LET text == heard'[c][Len(heard'[c])]
                       IN  /\ text # <<>> /\ text = Strip(text)
                           /\ tr2 = Append(tr,
                                [speaker |-> detect(sessions[c].last_speaker, text).ret,
                                 text |-> text])
                           /\ TextsOf(tr2) = heard'[c]
                  ELSE /\ tr2 = tr
                       /\ sessions'[c].last_speaker = sessions[c].last_speaker]_vars

\* A session holds three entries in arrival order, the first two with the same
\* text, and the entries carry two different labels
C29_Witness ==
    \E c \in DOMAIN sessions :
        LET tr == sessions[c].transcript
        IN  /\ Len(tr) = 3
            /\ TextsOf(tr) = heard[c]
            /\ tr[1].text = tr[2].text
            /\ tr[3].text # tr[1].text
            /\ tr[3].speaker # tr[1].speaker


\* ---------------------------------------------------------------------------
\* Punctuation left over by the filler phrases (checked under SpecNorm)
\* ---------------------------------------------------------------------------
\* The text holds nothing but "," "." "!" "?" and whitespace
OnlyPunctuation(text) ==
    \A i \in 1..Len(text) : text[i] \in {44, 46, 33, 63} \/ IsSpace(text[i])

\* C30: a line of which the removal of all filler phrases leaves only punctuation
\* and whitespace is filler and is dropped, also when more than one punctuation
\* character is left.
C30_PunctuationLeftoverIsFiller ==
    [][LineStep =>
          (OnlyPunctuation(RemoveFillers(StepLine, 1)) =>
              /\ is_filler_line(StepLine)
              /\ cleaned' = cleaned)]_vars


\* ---------------------------------------------------------------------------
\* Isolation of concurrent consultations (checked under Spec)
\* ---------------------------------------------------------------------------
\* The state of a detector constructed or reset with last and then given the texts
RECURSIVE DetectorAfter(_, _)
DetectorAfter(last, texts) ==
    IF texts = <<>> THEN last
    ELSE DetectorAfter(detect(last, Head(texts)).last, Tail(texts))

\* Transcript and detector of every session are what the connection's own
\* utterances since its last reset make of a fresh detector
OwnHistoryOnly ==
    \A c \in DOMAIN sessions :
        /\ sessions[c].transcript = LabelFrom("patient", heard[c])
        /\ sessions[c].last_speaker = DetectorAfter("patient", heard[c])

\* A step in which connection c neither connects or closes nor takes an
\* utterance or a stop signal leaves the session of c as it is
OthersUntouched ==
    \A c \in DOMAIN sessions :
        (conn'[c] = conn[c] /\ heard'[c] = heard[c] /\ outbox'[c] = outbox[c]) =>
            /\ c \in DOMAIN sessions'
            /\ sessions'[c] = sessions[c]

\* C31: consultations are isolated under every interleaving of the handlers. A
\* step of one connection never changes the transcript or the detector of
\* another, and every session's labels are those its own utterances since its
\* last reset give, whatever the other connections received or reset meanwhile.
C31_ConsultationsIsolated ==
    []OwnHistoryOnly /\ [][OthersUntouched]_vars

\* Two sessions are open at once; the same cue-free utterance was labelled
\* doctor in the one, after a doctor utterance, and patient in the other
C31_Witness ==
    \E c, d \in DOMAIN sessions :
        /\ c # d
        /\ conn[c] = "open" /\ conn[d] = "open"
        /\ Len(sessions[c].transcript) = 2
        /\ Len(sessions[d].transcript) = 1
        /\ sessions[c].transcript[2].text = sessions[d].transcript[1].text
        /\ CueFree(sessions[d].transcript[1].text)
        /\ sessions[c].transcript[2].speaker = "doctor"
        /\ sessions[d].transcript[1].speaker = "patient"
        /\ sessions[c].last_speaker = "doctor"
        /\ sessions[d].last_speaker = "patient"


\* ---------------------------------------------------------------------------
\* Removal of sessions (checked under Spec)
\* ---------------------------------------------------------------------------
\* The sessions map holds an entry only for connections whose handler is running
NoSessionWithoutHandler == \A c \in DOMAIN sessions : conn[c] = "open"

\* The step ends the handler of connection c: client disconnect or exception
HandlerEnds(c) == conn[c] = "open" /\ conn'[c] = "idle"

\* C32: every session is removed when its connection ends. The step that ends a
\* handler, by client disconnect or by an exception, deletes the connection's
\* entry, the map never holds an entry for a closed connection, and cleanup of
\* an id that is not in the map leaves the map as it is.
C32_SessionsRemovedWithConnection ==
    /\ [](/\ NoSessionWithoutHandler
          /\ \A c \in ConnIds \ DOMAIN sessions : cleanup_session(sessions, c) = sessions)
    /\ [][\A c \in ConnIds : HandlerEnds(c) => c \notin DOMAIN sessions']_vars

====
